---------------------------- MODULE Spec2Model ----------------------------
(* A model of the delegation program: the diff codec (src/src/diff) and the *)
(* Delegate / Commit / Finalize / Undelegate state machine                  *)
(* (src/src/processor/fast).  Lamports are natural numbers, byte buffers    *)
(* are sequences of naturals below 256, addresses are strings.              *)
EXTENDS Naturals, Integers, Sequences, FiniteSets, TLC

(***************************************************************************)
(* Bounds of the model                                                     *)
(***************************************************************************)
\* largest byte value used in account data and diff inputs
MaxByte == 1
\* longest buffer handed to the diff codec
MaxBufLen == 3
\* largest nonce of a commit the model lets through; commits are tried with
\* nonces 1..MaxNonce + 1
MaxNonce == 2

Byte == 0..MaxByte

RECURSIVE SeqsUpTo(_, _)
SeqsUpTo(S, n) ==
    IF n = 0 THEN {<<>>}
    ELSE LET shorter == SeqsUpTo(S, n - 1)
         IN  shorter \cup {Append(q, x) : q \in {r \in shorter : Len(r) = n - 1}, x \in S}

Buffers == SeqsUpTo(Byte, MaxBufLen)

Min(a, b) == IF a < b THEN a ELSE b

(***************************************************************************)
(* Diff codec: src/src/diff/types.rs, src/src/diff/algorithm.rs            *)
(***************************************************************************)
SIZE_OF_CHANGED_LEN == 4
SIZE_OF_NUM_OFFSET_PAIRS == 4
SIZE_OF_SINGLE_OFFSET_PAIR == 8

\* (n as u32).to_le_bytes().  Every length and offset of the model is far below
\* 2^32, so the cast to u32 never truncates.
to_le_bytes(n) ==
    << n % 256, (n \div 256) % 256, (n \div 65536) % 256, (n \div 16777216) % 256 >>

\* *(buf.add(off) as *const u32): the little-endian u32 at 0-based offset off.
\* A u32 of 2^31 or more is held as its value less 2^32, the i32 of the same
\* bits: sums and differences of two such numbers are the u32's wrapping ones.
read_u32(buf, off) ==
    buf[off + 1] + 256 * buf[off + 2] + 65536 * buf[off + 3]
        + 16777216 * (IF buf[off + 4] < 128 THEN buf[off + 4] ELSE buf[off + 4] - 256)

\* a < b of two u32 (or usize) values
u32_lt(a, b) == IF (a < 0) = (b < 0) THEN a < b ELSE b < 0

\* slice[from..to] with 0-based half-open bounds
Slice(s, from, to) == SubSeq(s, from + 1, to)

RECURSIVE Concat(_)
Concat(ss) == IF ss = <<>> THEN <<>> ELSE Head(ss) \o Concat(Tail(ss))

\* inner while of compute_diff: first index >= i (below min_len) where the bytes agree
RECURSIVE run_end(_, _, _, _)
run_end(original, changed, i, min_len) ==
    IF i < min_len /\ original[i + 1] # changed[i + 1]
    THEN run_end(original, changed, i + 1, min_len)
    ELSE i

\* outer while of compute_diff: the contiguous differing runs of the common prefix
RECURSIVE scan_diffs(_, _, _, _, _)
scan_diffs(original, changed, i, min_len, diffs) ==
    IF i >= min_len THEN diffs
    ELSE IF original[i + 1] # changed[i + 1]
         THEN LET e == run_end(original, changed, i, min_len)
              IN  scan_diffs(original, changed, e, min_len,
                             Append(diffs, [start |-> i, bytes |-> Slice(changed, i, e)]))
         ELSE scan_diffs(original, changed, i + 1, min_len, diffs)

\* the bytes past the end of the original are left out
diff_segments_without_extension(original, changed) ==
    scan_diffs(original, changed, 0, Min(Len(original), Len(changed)), <<>>)

\* step 1 and 2 of compute_diff: the list of (offset_in_account, slice)
diff_segments(original, changed) ==
    LET min_len == Min(Len(original), Len(changed))
        common  == scan_diffs(original, changed, 0, min_len, <<>>)
    IN  IF Len(changed) > Len(original)
        THEN Append(common, [start |-> Len(original),
                             bytes |-> Slice(changed, Len(original), Len(changed))])
        ELSE common

\* every pair carries offset_in_diff 0
offset_pair_bytes_from_zero(diffs, offset_in_diff) ==
    Concat([k \in 1..Len(diffs) |-> to_le_bytes(0) \o to_le_bytes(diffs[k].start)])

\* the offset pairs of compute_diff's serialization, offset_in_diff accumulating
RECURSIVE offset_pair_bytes(_, _)
offset_pair_bytes(diffs, offset_in_diff) ==
    IF diffs = <<>> THEN <<>>
    ELSE to_le_bytes(offset_in_diff) \o to_le_bytes(Head(diffs).start)
         \o offset_pair_bytes(Tail(diffs), offset_in_diff + Len(Head(diffs).bytes))

\* the header carries the length of the original
compute_diff_with_original_len(original, changed) ==
    LET diffs == diff_segments(original, changed)
    IN  to_le_bytes(Len(original))
        \o to_le_bytes(Len(diffs))
        \o offset_pair_bytes(diffs, 0)
        \o Concat([k \in 1..Len(diffs) |-> diffs[k].bytes])

compute_diff(original, changed) ==
    LET diffs == diff_segments(original, changed)
    IN  to_le_bytes(Len(changed))
        \o to_le_bytes(Len(diffs))
        \o offset_pair_bytes(diffs, 0)
        \o Concat([k \in 1..Len(diffs) |-> diffs[k].bytes])

\* a buffer that is all header is accepted whatever count it declares
header_only_check_missing(segments_count) == ""

\* Ordering::Equal: the diff holds the header only, so it declares no segment
header_only_check(segments_count) ==
    IF segments_count # 0 THEN "InvalidDiff" ELSE ""

\* DiffSet::try_new.  aligned: whether the buffer starts on a 4-byte boundary.
try_new(diff, aligned) ==
    IF Len(diff) < SIZE_OF_CHANGED_LEN + SIZE_OF_NUM_OFFSET_PAIRS
    THEN [ok |-> FALSE, err |-> "InvalidDiff"]
    ELSE IF ~aligned
    THEN [ok |-> FALSE, err |-> "InvalidDiffAlignment"]
    ELSE LET changed_len    == read_u32(diff, 0)
             segments_count == read_u32(diff, 4)
             header_len     == SIZE_OF_CHANGED_LEN + SIZE_OF_NUM_OFFSET_PAIRS
                               + segments_count * SIZE_OF_SINGLE_OFFSET_PAIR
         IN  IF Len(diff) = header_len
             THEN IF header_only_check(segments_count) # ""
                  THEN [ok |-> FALSE, err |-> header_only_check(segments_count)]
                  ELSE [ok |-> TRUE, err |-> "", changed_len |-> changed_len,
                        segments_count |-> segments_count,
                        offset_pairs |-> <<>>, concat_diff |-> <<>>]
             ELSE IF Len(diff) < header_len
             THEN [ok |-> FALSE, err |-> "InvalidDiff"]
             ELSE [ok |-> TRUE, err |-> "", changed_len |-> changed_len,
                   segments_count |-> segments_count,
                   offset_pairs |->
                       [k \in 1..segments_count |->
                           [offset_in_diff |-> read_u32(diff, 8 * k),
                            offset_in_data |-> read_u32(diff, 8 * k + 4)]],
                   concat_diff |-> Slice(diff, header_len, Len(diff))]

\* DiffSet::diff_segment_at, index 0-based.  kind is "None", "Err", "Some" or
\* "Overflow": offset_in_data + segment_end does not fit a u32, which panics
\* in a build with overflow checks and wraps in one without; wrapping is what
\* the wrapping build returns.
diff_segment_at(ds, index) ==
    IF index >= Len(ds.offset_pairs)
    THEN [kind |-> "None"]
    ELSE LET segment_begin  == ds.offset_pairs[index + 1].offset_in_diff
             offset_in_data == ds.offset_pairs[index + 1].offset_in_data
             concat_len     == Len(ds.concat_diff)
             segment_end    == IF index + 1 < Len(ds.offset_pairs)
                               THEN ds.offset_pairs[index + 2].offset_in_diff
                               ELSE concat_len
         IN  IF \/ u32_lt(concat_len, segment_end)
                \/ ~u32_lt(segment_begin, segment_end)
                \/ ~u32_lt(offset_in_data, ds.changed_len)
             THEN [kind |-> "Err"]
             ELSE LET range_end == offset_in_data + segment_end - segment_begin
                      checked   == IF u32_lt(ds.changed_len, range_end)
                                   THEN [kind |-> "Err"]
                                   ELSE [kind |-> "Some",
                                         segment |-> Slice(ds.concat_diff, segment_begin,
                                                           segment_end),
                                         start |-> offset_in_data, end |-> range_end]
                  IN  IF offset_in_data < 0 /\ offset_in_data + segment_end >= 0
                      THEN [kind |-> "Overflow", wrapping |-> checked]
                      ELSE checked

\* original[range].copy_from_slice(segment)
copy_into(buf, start, segment) ==
    [k \in 1..Len(buf) |->
        IF k > start /\ k <= start + Len(segment) THEN segment[k - start] ELSE buf[k]]

\* apply_diff_impl over DiffSet::iter, from segment index onwards
RECURSIVE apply_diff_impl(_, _, _)
apply_diff_impl(buf, ds, index) ==
    IF index >= ds.segments_count THEN [ok |-> TRUE, err |-> "", data |-> buf]
    ELSE LET item == diff_segment_at(ds, index)
         IN  IF item.kind # "Some"
             THEN [ok |-> FALSE, err |-> "InvalidDiff", data |-> <<>>]
             ELSE apply_diff_impl(copy_into(buf, item.start, item.segment), ds, index + 1)

\* the new tail is filled with the highest byte
resized_not_zeroed(original, new_size) ==
    [k \in 1..new_size |-> IF k <= Len(original) THEN original[k] ELSE MaxByte]

\* applied.resize(new_size, 0) / original[0..new_size]
resized(original, new_size) ==
    [k \in 1..new_size |-> IF k <= Len(original) THEN original[k] ELSE 0]

\* a diff to a shorter buffer is applied to the whole original
apply_diff_copy_without_shrinking(original, ds) ==
    IF ds.changed_len > Len(original)
    THEN apply_diff_impl(resized(original, ds.changed_len), ds, 0)
    ELSE apply_diff_impl(original, ds, 0)

apply_diff_copy(original, ds) ==
    IF ds.changed_len > Len(original)
    THEN apply_diff_impl(resized(original, ds.changed_len), ds, 0)
    ELSE IF ds.changed_len < Len(original)
    THEN apply_diff_impl(Slice(original, 0, ds.changed_len), ds, 0)
    ELSE apply_diff_impl(original, ds, 0)

\* merge_diff_copy from segment index onwards, write_index bytes written; a
\* slice that reaches past the end of a buffer panics
RECURSIVE merge_diff_impl(_, _, _, _, _)
merge_diff_impl(destination, original, ds, index, write_index) ==
    IF index >= ds.segments_count
    THEN [ok |-> TRUE, err |-> "",
          data |-> IF write_index < Len(original)
                   THEN copy_into(destination, write_index,
                                  Slice(original, write_index, Len(original)))
                   ELSE destination]
    ELSE LET item == diff_segment_at(ds, index)
         IN  IF item.kind # "Some"
             THEN [ok |-> FALSE, err |-> "InvalidDiff", data |-> destination]
             ELSE IF item.end > Len(destination)
             THEN [ok |-> FALSE, err |-> "ProgramFailedToComplete", data |-> destination]
             ELSE LET unchanged == IF write_index < item.start
                                   THEN copy_into(destination, write_index,
                                                  Slice(original, write_index, item.start))
                                   ELSE destination
                  IN  merge_diff_impl(copy_into(unchanged, item.start, item.segment),
                                      original, ds, index + 1, item.end)

\* the lengths of destination and original are not compared
merge_diff_copy_unchecked_length(destination, original, ds) ==
    merge_diff_impl(destination, original, ds, 0, 0)

merge_diff_copy(destination, original, ds) ==
    IF Len(destination) # Len(original)
    THEN [ok |-> FALSE, err |-> "MergeDiffError", data |-> destination]
    ELSE merge_diff_impl(destination, original, ds, 0, 0)

\* only a diff that encodes growth is refused
apply_diff_in_place_growth_only(original, ds) ==
    IF ds.changed_len > Len(original)
    THEN [ok |-> FALSE, err |-> "InvalidInstructionData", data |-> original]
    ELSE apply_diff_impl(original, ds, 0)

\* apply_diff_in_place: data is the buffer after the call
apply_diff_in_place(original, ds) ==
    IF ds.changed_len # Len(original)
    THEN [ok |-> FALSE, err |-> "InvalidInstructionData", data |-> original]
    ELSE apply_diff_impl(original, ds, 0)

(***************************************************************************)
(* Addresses.  Every instruction of the model is handed the canonical,     *)
(* correctly derived address of each cell it needs (the address checks of  *)
(* require_pda / require_*_pda pass); what a cell holds is state.          *)
(***************************************************************************)
\* crate::fast::ID
DLP == "DelegationProgram"
\* pinocchio_system::ID
SYSTEM == "SystemProgram"
\* the program that owns the account outside a delegation
OwnerProg == "OwnerProgram"
\* Pubkey::default(), the authority value that lets any validator commit
ANY_VALIDATOR == "Pubkey::default"
\* consts::DEFAULT_VALIDATOR_IDENTITY, recorded when Delegate names no validator
DEFAULT_VALIDATOR_IDENTITY == "DefaultValidator"

Validators == {"V1", "V2", "V3"}
Payers == {"Payer"}

\* validator_fees_vault_pda_from_validator
validator_fees_vault_pda(v) ==
    CASE v = "V1" -> "vault_V1" [] v = "V2" -> "vault_V2" [] OTHER -> "vault_V3"

\* cells derived from the delegated account: the account itself ("da"), the
\* delegation record ("dr"), the delegation metadata ("dm"), the commit state
\* ("cs"), the commit record ("cr"), the undelegate buffer ("ub"), the delegate
\* buffer ("db"); "fees_vault" is the protocol fees vault, "config" the program
\* config of OwnerProg.
Cells == {"da", "dr", "dm", "cs", "cr", "ub", "db", "fees_vault", "config",
          "vault_V1", "vault_V2", "vault_V3"} \cup Validators \cup Payers

Uninitialized == [owner |-> SYSTEM, lamports |-> 0, data |-> <<>>]

Zeros(n) == [k \in 1..n |-> 0]

\* Rent::get()?.minimum_balance(space): (128 + space) bytes at 3480 lamports per
\* byte-year, two years
minimum_balance(space) == (128 + space) * 3480 * 2

\* size_with_discriminator() / serialized_size() of the persisted records
size_with_discriminator(kind) ==
    CASE kind = "DelegationRecord" -> 96
      [] kind = "CommitRecord" -> 88
      [] OTHER -> 64

Ok(L) == [res |-> "Ok", st |-> L]
Err(e, L) == [res |-> e, st |-> L]

(***************************************************************************)
(* src/src/processor/fast/utils/requires.rs                                *)
(***************************************************************************)
\* is_uninitialized_account
is_uninitialized_account(L, k) == L[k].owner = SYSTEM /\ L[k].data = <<>>

\* require_owned_pda / require_initialized_pda with the address check passing:
\* "" when the cell is owned by the program, the error otherwise
require_initialized_pda(L, k) ==
    IF L[k].owner # DLP THEN "InvalidAccountOwner" ELSE ""

\* the cell is taken as uninitialized whatever it holds
require_uninitialized_pda_unchecked(L, k, ctx) == ""

\* the data is looked at before the owner
require_uninitialized_pda_data_first(L, k, ctx) ==
    IF L[k].data # <<>> THEN ctx \o "AlreadyInitialized"
    ELSE IF L[k].owner # SYSTEM THEN ctx \o "InvalidAccountOwner"
    ELSE ""

\* require_uninitialized_pda with the address check passing and the cell
\* writable; ctx names the record kind of the error set
require_uninitialized_pda(L, k, ctx) ==
    IF L[k].owner # SYSTEM THEN ctx \o "InvalidAccountOwner"
    ELSE IF L[k].data # <<>> THEN ctx \o "AlreadyInitialized"
    ELSE ""

\* require_program_config: whether a program config exists for the owner program
require_program_config(L) == L["config"].owner # SYSTEM

(***************************************************************************)
(* System program instructions and src/src/processor/fast/utils/pda.rs      *)
(***************************************************************************)
\* the transfer is reported done and nothing is moved
system_transfer_not_moving(L, from, to, n) ==
    IF L[from].lamports < n THEN Err("InsufficientFunds", L) ELSE Ok(L)

\* system::Transfer { from, to, lamports }.invoke()
system_transfer(L, from, to, n) ==
    IF L[from].lamports < n THEN Err("InsufficientFunds", L)
    ELSE IF from = to THEN Ok(L)
    ELSE Ok([L EXCEPT ![from].lamports = @ - n, ![to].lamports = @ + n])

\* create_pda
create_pda(L, target, owner, space, payer) ==
    IF L[target].lamports = 0
    THEN \* system::CreateAccount
         IF L[target].owner # SYSTEM \/ L[target].data # <<>>
         THEN Err("AccountAlreadyInUse", L)
         ELSE IF L[payer].lamports < minimum_balance(space)
         THEN Err("InsufficientFunds", L)
         ELSE Ok([L EXCEPT ![payer].lamports = @ - minimum_balance(space),
                           ![target] = [owner |-> owner,
                                        lamports |-> minimum_balance(space),
                                        data |-> Zeros(space)]])
    ELSE LET rent_exempt_balance ==
                 IF minimum_balance(space) > L[target].lamports
                 THEN minimum_balance(space) - L[target].lamports ELSE 0
             funded == IF rent_exempt_balance > 0
                       THEN system_transfer(L, payer, target, rent_exempt_balance)
                       ELSE Ok(L)
         IN  IF funded.res # "Ok" THEN funded
             \* system::Allocate, system::Assign
             ELSE IF funded.st[target].owner # SYSTEM \/ funded.st[target].data # <<>>
             THEN Err("AccountAlreadyInUse", funded.st)
             ELSE Ok([funded.st EXCEPT ![target].owner = owner,
                                       ![target].data = Zeros(space)])

\* the lamports of the closed account are dropped
close_pda_without_credit(L, target, destination) ==
    [L EXCEPT ![target] = Uninitialized]

\* close_pda
close_pda(L, target, destination) ==
    [L EXCEPT ![destination].lamports = @ + L[target].lamports,
              ![target] = Uninitialized]

\* every tier keeps the total fee: the percentage is never applied again
cascade_not_reduced(amount, count, fee_percentage) ==
    [i \in 1..count |-> amount]

\* close_pda_with_fees: the cascaded amounts, fee_percentage of the previous one
RECURSIVE cascade(_, _, _)
cascade(amount, count, fee_percentage) ==
    IF count = 0 THEN <<>>
    ELSE <<amount>> \o cascade((amount * fee_percentage) \div 100, count - 1, fee_percentage)

RECURSIVE credit_fees(_, _, _, _)
credit_fees(L, fees_addresses, fees, i) ==
    IF i > Len(fees_addresses) THEN L
    ELSE credit_fees([L EXCEPT ![fees_addresses[i]].lamports = @ + fees[i]],
                     fees_addresses, fees, i + 1)

close_pda_with_fees(L, target, destination, fees_addresses, fee_percentage) ==
    IF fees_addresses = <<>> \/ fee_percentage > 100
    THEN Err("InvalidArgument", L)
    ELSE LET init_lamports    == L[target].lamports
             total_fee_amount == (init_lamports * fee_percentage) \div 100
             tiers == cascade(total_fee_amount, Len(fees_addresses), fee_percentage)
             fees  == [i \in 1..Len(tiers) |->
                          IF i < Len(tiers) THEN tiers[i] - tiers[i + 1] ELSE tiers[i]]
             paid  == credit_fees(L, fees_addresses, fees, 1)
         IN  Ok([paid EXCEPT ![destination].lamports = @ + (init_lamports - total_fee_amount),
                             ![target] = Uninitialized])

(***************************************************************************)
(* Delegate: src/src/processor/fast/delegate.rs                            *)
(***************************************************************************)
\* the seeds the delegated account is derived from under OwnerProg
TEST_PDA_SEED == <<"test-pda">>

\* pubkey::find_program_address(seeds, program_id).0, for the addresses of the model
find_program_address(seeds, program_id) ==
    CASE seeds = TEST_PDA_SEED /\ program_id = OwnerProg -> "da"
      [] seeds = <<>> /\ program_id = OwnerProg -> "pda_no_seeds"
      [] Len(seeds) = 4 /\ program_id = OwnerProg -> "pda_four_seeds"
      [] OTHER -> "elsewhere"

\* is_on_curve_fast: the delegated account of the model is a derived address
is_on_curve_fast(k) == k \in Validators \cup Payers

\* the seed validation of process_delegate for the account at address key:
\* "" when it passes
delegate_seeds_check(key, owner_program, seeds) ==
    IF is_on_curve_fast(key) THEN ""
    ELSE IF Len(seeds) \notin 1..4 THEN "TooManySeeds"
    ELSE IF find_program_address(seeds, IF owner_program = SYSTEM THEN DLP
                                        ELSE owner_program) # key
    THEN "InvalidSeeds"
    ELSE ""

\* the record does not capture the account's lamports
initial_delegation_record_without_lamports(L, a) ==
    [owner     |-> a.owner_program,
     authority |-> IF a.validator = "None" THEN DEFAULT_VALIDATOR_IDENTITY ELSE a.validator,
     lamports  |-> 0]

\* the DelegationRecord Delegate writes
initial_delegation_record(L, a) ==
    [owner     |-> a.owner_program,
     authority |-> IF a.validator = "None" THEN DEFAULT_VALIDATOR_IDENTITY ELSE a.validator,
     lamports  |-> L["da"].lamports]

\* the DelegationMetadata Delegate writes
initial_delegation_metadata(a) ==
    [seeds |-> a.seeds, last_update_nonce |-> 0,
     is_undelegatable |-> FALSE, rent_payer |-> a.payer]

\* a: [payer, payer_signer, delegated_signer, owner_program, validator, seeds]
\* validator is "None" or the validator the delegator names
process_delegate(L, a) ==
    IF L["da"].owner # DLP THEN Err("InvalidAccountOwner", L)
    ELSE IF ~a.payer_signer \/ ~a.delegated_signer
    THEN Err("MissingRequiredSignature", L)
    ELSE IF require_uninitialized_pda(L, "dr", "DelegationRecord") # ""
    THEN Err(require_uninitialized_pda(L, "dr", "DelegationRecord"), L)
    ELSE IF require_uninitialized_pda(L, "dm", "DelegationMetadata") # ""
    THEN Err(require_uninitialized_pda(L, "dm", "DelegationMetadata"), L)
    ELSE IF delegate_seeds_check("da", a.owner_program, a.seeds) # ""
    THEN Err(delegate_seeds_check("da", a.owner_program, a.seeds), L)
    ELSE LET c1 == create_pda(L, "dr", DLP, size_with_discriminator("DelegationRecord"),
                              a.payer)
         IN  IF c1.res # "Ok" THEN c1
             ELSE
             LET delegation_record == initial_delegation_record(c1.st, a)
                 L1 == [c1.st EXCEPT !["dr"].data = <<delegation_record>>]
                 delegation_metadata == initial_delegation_metadata(a)
                 c2 == create_pda(L1, "dm", DLP,
                                  size_with_discriminator("DelegationMetadata"), a.payer)
             IN  IF c2.res # "Ok" THEN c2
                 ELSE
                 LET L2 == [c2.st EXCEPT !["dm"].data = <<delegation_metadata>>]
                 IN  IF L2["db"].data = <<>> THEN Ok(L2)
                     \* copy_from_slice panics when the lengths differ
                     ELSE IF Len(L2["db"].data) # Len(L2["da"].data)
                     THEN Err("ProgramFailedToComplete", L2)
                     ELSE Ok([L2 EXCEPT !["da"].data = L2["db"].data])

(***************************************************************************)
(* Commit: src/src/processor/fast/commit_state.rs, commit_diff.rs,         *)
(* commit_state_from_buffer.rs                                             *)
(***************************************************************************)
DelegationRecordOf(L) == L["dr"].data[1]
DelegationMetadataOf(L) == L["dm"].data[1]
CommitRecordOf(L) == L["cr"].data[1]

\* the account checks that open process_commit_state_internal: "" when they pass
commit_account_checks(L, a) ==
    IF L["da"].owner # DLP THEN "InvalidAccountOwner"
    ELSE IF ~a.signer THEN "MissingRequiredSignature"
    ELSE IF require_initialized_pda(L, "dr") # "" THEN require_initialized_pda(L, "dr")
    ELSE IF require_initialized_pda(L, "dm") # "" THEN require_initialized_pda(L, "dm")
    ELSE require_initialized_pda(L, validator_fees_vault_pda(a.validator))

\* the recorded authority is not compared with the caller
commit_authority_check_missing(delegation_record, validator) == ""

\* the validator must be the recorded authority unless that is Pubkey::default()
commit_authority_check(delegation_record, validator) ==
    IF delegation_record.authority # validator
       /\ delegation_record.authority # ANY_VALIDATOR
    THEN "InvalidAuthority" ELSE ""

\* the approved validators are not consulted
commit_whitelist_check_missing(L, validator) == ""

\* with a program config for the owner program, the validator must be approved
commit_whitelist_check(L, validator) ==
    IF require_program_config(L)
       /\ validator \notin L["config"].data[1].approved_validators
    THEN "InvalidWhitelistProgramConfig" ELSE ""

\* the new state is written to the delegated account as well
commit_state_write_to_account(L, bytes) ==
    [L EXCEPT !["cs"].data = bytes, !["da"].data = bytes]

\* commit_state_data.copy_from_slice(commit_state_bytes)
commit_state_write(L, bytes) == [L EXCEPT !["cs"].data = bytes]

\* the record carries the nonce of the commit before
new_commit_record_with_previous_nonce(a) ==
    [identity |-> a.validator, account |-> "da",
     nonce |-> a.nonce - 1, lamports |-> a.lamports]

\* CommitRecord { identity, account, nonce, lamports }
new_commit_record(a) ==
    [identity |-> a.validator, account |-> "da",
     nonce |-> a.nonce, lamports |-> a.lamports]

\* the validator deposits nothing with the commit
commit_collateral_not_deposited(L, a, delegation_record) == Ok(L)

\* lamports committed above the recorded balance are deposited by the validator
\* in the commit state account
commit_collateral(L, a, delegation_record) ==
    IF a.lamports > delegation_record.lamports
    THEN system_transfer(L, a.validator, "cs", a.lamports - delegation_record.lamports)
    ELSE Ok(L)

\* process_commit_state_internal from the write of the undelegation flag on
\* a: [validator, signer, nonce, lamports, allow_undelegation], bytes: the new state
commit_effects(L, a, bytes) ==
    LET L1 == [L EXCEPT !["dm"].data[1].is_undelegatable = a.allow_undelegation]
        delegation_record == DelegationRecordOf(L1)
    IN  IF commit_authority_check(delegation_record, a.validator) # ""
        THEN Err(commit_authority_check(delegation_record, a.validator), L1)
        ELSE IF L1["da"].lamports < delegation_record.lamports
        THEN Err("InvalidDelegatedState", L1)
        ELSE
        LET t == commit_collateral(L1, a, delegation_record)
        IN  IF t.res # "Ok" THEN t
            ELSE IF commit_whitelist_check(t.st, a.validator) # ""
            THEN Err(commit_whitelist_check(t.st, a.validator), t.st)
            ELSE IF require_uninitialized_pda(t.st, "cs", "CommitState") # ""
            THEN Err(require_uninitialized_pda(t.st, "cs", "CommitState"), t.st)
            ELSE IF require_uninitialized_pda(t.st, "cr", "CommitRecord") # ""
            THEN Err(require_uninitialized_pda(t.st, "cr", "CommitRecord"), t.st)
            ELSE
            LET c1 == create_pda(t.st, "cs", DLP, Len(bytes), a.validator)
            IN  IF c1.res # "Ok" THEN c1
                ELSE
                LET c2 == create_pda(c1.st, "cr", DLP,
                                     size_with_discriminator("CommitRecord"), a.validator)
                IN  IF c2.res # "Ok" THEN c2
                    ELSE
                    LET commit_record == new_commit_record(a)
                    IN  Ok(commit_state_write(
                               [c2.st EXCEPT !["cr"].data = <<commit_record>>], bytes))

\* a commit sent after the flag was set is let through
commit_latch_check_missing(L, a, bytes) == commit_effects(L, a, bytes)

\* once the account is marked as undelegatable, any subsequent commit fails
commit_latch_check(L, a, bytes) ==
    IF DelegationMetadataOf(L).is_undelegatable
    THEN Err("AlreadyUndelegated", L)
    ELSE commit_effects(L, a, bytes)

\* the nonce is not looked at
commit_nonce_check_missing(L, a, bytes) == commit_latch_check(L, a, bytes)

\* only a nonce that is not ahead is rejected
commit_nonce_check_behind_only(L, a, bytes) ==
    IF a.nonce < DelegationMetadataOf(L).last_update_nonce + 1
    THEN Err("NonceOutOfOrder", L)
    ELSE commit_latch_check(L, a, bytes)

\* sequential commits: the nonce must be last_update_nonce + 1
commit_nonce_check(L, a, bytes) ==
    IF a.nonce # DelegationMetadataOf(L).last_update_nonce + 1
    THEN Err("NonceOutOfOrder", L)
    ELSE commit_latch_check(L, a, bytes)

process_commit_state_internal(L, a, bytes) ==
    IF commit_account_checks(L, a) # "" THEN Err(commit_account_checks(L, a), L)
    ELSE commit_nonce_check(L, a, bytes)

\* process_commit_state: a.data is the new state, carried inline
process_commit_state(L, a) == process_commit_state_internal(L, a, a.data)

\* process_commit_state_from_buffer: a.data is what the state buffer account holds
process_commit_state_from_buffer(L, a) == process_commit_state_internal(L, a, a.data)

\* DiffSet::try_new_from_borsh_vec: the diff arrives as a Borsh Vec<u8>, a 4-byte
\* length prefix before the diff bytes
try_new_from_borsh_vec(vec_buffer) ==
    IF Len(vec_buffer) < 4 THEN [ok |-> FALSE, err |-> "InvalidDiff"]
    ELSE try_new(Slice(vec_buffer, 4, Len(vec_buffer)), TRUE)

\* the Borsh encoding of a diff as Vec<u8>
borsh_vec(diff) == to_le_bytes(Len(diff)) \o diff

\* process_commit_diff: a.data is the Borsh Vec<u8> of the diff
process_commit_diff(L, a) ==
    LET diffset == try_new_from_borsh_vec(a.data)
    IN  IF ~diffset.ok THEN Err(diffset.err, L)
        ELSE LET changed == apply_diff_copy(L["da"].data, diffset)
             IN  IF ~changed.ok THEN Err(changed.err, L)
                 ELSE process_commit_state_internal(L, a, changed.data)

(***************************************************************************)
(* Finalize: src/src/processor/fast/finalize.rs                            *)
(***************************************************************************)
\* the destination is credited and the source is not debited
settle_lamports_balance_crediting_only(L, validator_fees_vault, delegation_record_lamports, commit_record_lamports) ==
    IF delegation_record_lamports = commit_record_lamports THEN Ok(L)
    ELSE LET greater == delegation_record_lamports > commit_record_lamports
             transfer_destination == IF greater THEN validator_fees_vault ELSE "da"
             transfer_lamports    == IF greater
                                     THEN delegation_record_lamports - commit_record_lamports
                                     ELSE commit_record_lamports - delegation_record_lamports
         IN  Ok([L EXCEPT ![transfer_destination].lamports = @ + transfer_lamports])

\* the surplus owed to the delegated account is taken from the fee vault
settle_lamports_balance_surplus_from_vault(L, validator_fees_vault, delegation_record_lamports, commit_record_lamports) ==
    IF delegation_record_lamports = commit_record_lamports THEN Ok(L)
    ELSE LET greater == delegation_record_lamports > commit_record_lamports
             transfer_source      == IF greater THEN "da" ELSE validator_fees_vault
             transfer_destination == IF greater THEN validator_fees_vault ELSE "da"
             transfer_lamports    == IF greater
                                     THEN delegation_record_lamports - commit_record_lamports
                                     ELSE commit_record_lamports - delegation_record_lamports
         IN  IF L[transfer_source].lamports < transfer_lamports
             THEN Err("Overflow", L)
             ELSE Ok([L EXCEPT ![transfer_source].lamports = @ - transfer_lamports,
                               ![transfer_destination].lamports = @ + transfer_lamports])

\* settle_lamports_balance
settle_lamports_balance(L, validator_fees_vault, delegation_record_lamports, commit_record_lamports) ==
    IF delegation_record_lamports = commit_record_lamports THEN Ok(L)
    ELSE LET greater == delegation_record_lamports > commit_record_lamports
             transfer_source      == IF greater THEN "da" ELSE "cs"
             transfer_destination == IF greater THEN validator_fees_vault ELSE "da"
             transfer_lamports    == IF greater
                                     THEN delegation_record_lamports - commit_record_lamports
                                     ELSE commit_record_lamports - delegation_record_lamports
         IN  IF L[transfer_source].lamports < transfer_lamports
             THEN Err("Overflow", L)
             ELSE Ok([L EXCEPT ![transfer_source].lamports = @ - transfer_lamports,
                               ![transfer_destination].lamports = @ + transfer_lamports])

\* only the account of the commit record is compared
finalize_record_check_account_only(commit_record, validator) ==
    IF commit_record.account # "da" THEN "InvalidDelegatedAccount" ELSE ""

\* the commit record must be the one of this account, made by this validator
finalize_record_check(commit_record, validator) ==
    IF commit_record.account # "da" THEN "InvalidDelegatedAccount"
    ELSE IF commit_record.identity # validator THEN "InvalidReimbursementAccount"
    ELSE ""

\* the commit record is left open
finalize_commit_leaving_record(L, a) ==
    LET commit_record == CommitRecordOf(L)
    IN  IF finalize_record_check(commit_record, a.validator) # ""
        THEN Err(finalize_record_check(commit_record, a.validator), L)
        ELSE
        LET s == settle_lamports_balance(L, validator_fees_vault_pda(a.validator),
                                         DelegationRecordOf(L).lamports,
                                         commit_record.lamports)
        IN  IF s.res # "Ok" THEN s
            ELSE
            LET L1 == [s.st EXCEPT
                          !["dm"].data[1].last_update_nonce = commit_record.nonce,
                          !["dr"].data[1].lamports = s.st["da"].lamports,
                          !["da"].data = s.st["cs"].data]
            IN  Ok(close_pda(L1, "cs", a.validator))

\* the delegation record keeps the lamports it recorded before
finalize_commit_keeping_recorded_lamports(L, a) ==
    LET commit_record == CommitRecordOf(L)
    IN  IF finalize_record_check(commit_record, a.validator) # ""
        THEN Err(finalize_record_check(commit_record, a.validator), L)
        ELSE
        LET s == settle_lamports_balance(L, validator_fees_vault_pda(a.validator),
                                         DelegationRecordOf(L).lamports,
                                         commit_record.lamports)
        IN  IF s.res # "Ok" THEN s
            ELSE
            LET L1 == [s.st EXCEPT
                          !["dm"].data[1].last_update_nonce = commit_record.nonce,
                          !["da"].data = s.st["cs"].data]
            IN  Ok(close_pda(close_pda(L1, "cs", a.validator), "cr", a.validator))

\* process_finalize once both commit cells are known to exist
finalize_commit(L, a) ==
    LET commit_record == CommitRecordOf(L)
    IN  IF finalize_record_check(commit_record, a.validator) # ""
        THEN Err(finalize_record_check(commit_record, a.validator), L)
        ELSE
        LET s == settle_lamports_balance(L, validator_fees_vault_pda(a.validator),
                                         DelegationRecordOf(L).lamports,
                                         commit_record.lamports)
        IN  IF s.res # "Ok" THEN s
            ELSE
            LET L1 == [s.st EXCEPT
                          !["dm"].data[1].last_update_nonce = commit_record.nonce,
                          !["dr"].data[1].lamports = s.st["da"].lamports,
                          !["da"].data = s.st["cs"].data]
            IN  Ok(close_pda(close_pda(L1, "cs", a.validator), "cr", a.validator))

\* nothing to finalize is an error like any other missing cell
finalize_pending_check_strict(L, a) ==
    IF require_initialized_pda(L, "cs") # "" THEN Err(require_initialized_pda(L, "cs"), L)
    ELSE IF require_initialized_pda(L, "cr") # "" THEN Err(require_initialized_pda(L, "cr"), L)
    ELSE finalize_commit(L, a)

\* process_finalize from the look at the commit cells on
finalize_pending_check(L, a) ==
    LET require_cs == require_initialized_pda(L, "cs")
        require_cr == require_initialized_pda(L, "cr")
    IN  IF /\ require_cs = "InvalidAccountOwner" /\ require_cr = "InvalidAccountOwner"
           /\ is_uninitialized_account(L, "cs") /\ is_uninitialized_account(L, "cr")
        THEN Ok(L)
        ELSE IF require_cs # "" THEN Err(require_cs, L)
        ELSE IF require_cr # "" THEN Err(require_cr, L)
        ELSE finalize_commit(L, a)

\* a: [validator, signer]
process_finalize(L, a) ==
    IF ~a.signer THEN Err("MissingRequiredSignature", L)
    ELSE IF L["da"].owner # DLP THEN Err("InvalidAccountOwner", L)
    ELSE IF require_initialized_pda(L, "dr") # "" THEN Err(require_initialized_pda(L, "dr"), L)
    ELSE IF require_initialized_pda(L, "dm") # "" THEN Err(require_initialized_pda(L, "dm"), L)
    ELSE IF require_initialized_pda(L, validator_fees_vault_pda(a.validator)) # ""
    THEN Err(require_initialized_pda(L, validator_fees_vault_pda(a.validator)), L)
    ELSE finalize_pending_check(L, a)

(***************************************************************************)
(* Undelegate: src/src/processor/fast/undelegate.rs                        *)
(***************************************************************************)
\* consts::RENT_FEES_PERCENTAGE
RENT_FEES_PERCENTAGE == 10

\* what the owner program's handback entry point may do when invoked
CpiBehaviours == {"ok", "bad_data", "overcharge", "undercharge", "abort"}

\* some bytes of the same length that differ from data
other_bytes(data) == [k \in 1..Len(data) |-> IF k = 1 THEN (data[1] + 1) % (MaxByte + 1)
                                                       ELSE data[k]]

\* cpi_external_undelegate: the owner program recreates the delegated account
\* under its own ownership from the buffer, the validator paying the rent
cpi_external_undelegate(L, payer, owner_program_id, behaviour) ==
    LET rent    == minimum_balance(Len(L["ub"].data))
        charged == CASE behaviour = "overcharge" -> rent + 1
                     [] behaviour = "undercharge" -> rent - 1
                     [] OTHER -> rent
    IN  IF behaviour = "abort" THEN Err("Custom", L)
        ELSE IF L[payer].lamports < charged THEN Err("InsufficientFunds", L)
        ELSE Ok([L EXCEPT ![payer].lamports = @ - charged,
                          !["da"] = [owner    |-> owner_program_id,
                                     lamports |-> IF behaviour = "undercharge"
                                                  THEN charged ELSE rent,
                                     data     |-> IF behaviour = "bad_data"
                                                  THEN other_bytes(L["ub"].data)
                                                  ELSE L["ub"].data],
                          !["fees_vault"].lamports =
                              IF behaviour = "overcharge" THEN @ + 1 ELSE @])

\* a validator charged no more than the rent passes
validator_balance_check_at_most(before_cpi, after_cpi, min_rent) ==
    before_cpi <= after_cpi + min_rent

\* the validator's lamports dropped by exactly the rent of the account
validator_balance_check(before_cpi, after_cpi, min_rent) ==
    before_cpi = after_cpi + min_rent

\* only the length of the data is compared
account_data_check_length_only(account_data, buffer_data) ==
    Len(account_data) = Len(buffer_data)

\* the owner program moved the state back into the account
account_data_check(account_data, buffer_data) == account_data = buffer_data

\* the validator keeps what the account held above its rent
return_extra_lamports_kept(L, validator, lamports_before_close, min_rent) == Ok(L)

\* Return the extra lamports to the delegated account
return_extra_lamports(L, validator, lamports_before_close, min_rent) ==
    IF lamports_before_close < min_rent
    THEN Err("Overflow", L)
    ELSE system_transfer(L, validator, "da", lamports_before_close - min_rent)

process_undelegation_with_cpi(L, validator, owner_program, behaviour) ==
    LET delegated_account_lamports_before_close == L["da"].lamports
        L1 == close_pda(L, "da", validator)
        validator_lamports_before_cpi == L1[validator].lamports
        c == cpi_external_undelegate(L1, validator, owner_program, behaviour)
    IN  IF c.res # "Ok" THEN c
        ELSE
        LET validator_lamports_after_cpi == c.st[validator].lamports
            delegated_account_min_rent == minimum_balance(Len(c.st["da"].data))
        IN  IF ~validator_balance_check(validator_lamports_before_cpi,
                                        validator_lamports_after_cpi,
                                        delegated_account_min_rent)
            THEN Err("InvalidValidatorBalanceAfterCPI", c.st)
            ELSE IF ~account_data_check(c.st["da"].data, c.st["ub"].data)
            THEN Err("InvalidAccountDataAfterCPI", c.st)
            ELSE return_extra_lamports(c.st, validator,
                                       delegated_account_lamports_before_close,
                                       delegated_account_min_rent)

\* only the delegation record is closed
process_delegation_cleanup_keeping_metadata(L, rent_reimbursement, validator_fees_vault) ==
    close_pda_with_fees(L, "dr", rent_reimbursement,
                        <<validator_fees_vault, "fees_vault">>,
                        RENT_FEES_PERCENTAGE)

process_delegation_cleanup(L, rent_reimbursement, validator_fees_vault) ==
    LET c1 == close_pda_with_fees(L, "dr", rent_reimbursement,
                                  <<validator_fees_vault, "fees_vault">>,
                                  RENT_FEES_PERCENTAGE)
    IN  IF c1.res # "Ok" THEN c1
        ELSE close_pda_with_fees(c1.st, "dm", rent_reimbursement,
                                 <<validator_fees_vault, "fees_vault">>,
                                 RENT_FEES_PERCENTAGE)

\* the handback path is taken whatever the account holds
undelegate_fast_path_never(L) == FALSE

\* delegated_account.data_is_empty(): there is nothing to hand back
undelegate_fast_path(L) == L["da"].data = <<>>

\* any address is taken for the rent payer
undelegate_rent_payer_check_missing(delegation_metadata, rent_reimbursement) == ""

\* the rent reimbursement address must be the recorded rent payer
undelegate_rent_payer_check(delegation_metadata, rent_reimbursement) ==
    IF delegation_metadata.rent_payer # rent_reimbursement
    THEN "InvalidReimbursementAddressForDelegationRent" ELSE ""

\* process_undelegate from the rent payer check on
undelegate_effects(L, a) ==
    IF undelegate_rent_payer_check(DelegationMetadataOf(L), a.rent_reimbursement) # ""
    THEN Err(undelegate_rent_payer_check(DelegationMetadataOf(L), a.rent_reimbursement), L)
    ELSE IF undelegate_fast_path(L)
    THEN process_delegation_cleanup([L EXCEPT !["da"].owner = a.owner_program],
                                    a.rent_reimbursement,
                                    validator_fees_vault_pda(a.validator))
    ELSE IF require_uninitialized_pda(L, "ub", "UndelegateBuffer") # ""
    THEN Err(require_uninitialized_pda(L, "ub", "UndelegateBuffer"), L)
    ELSE
    LET c == create_pda(L, "ub", DLP, Len(L["da"].data), a.validator)
    IN  IF c.res # "Ok" THEN c
        ELSE
        LET L1 == [c.st EXCEPT !["ub"].data = c.st["da"].data]
            u  == process_undelegation_with_cpi(L1, a.validator, a.owner_program, a.cpi)
        IN  IF u.res # "Ok" THEN u
            ELSE process_delegation_cleanup(close_pda(u.st, "ub", a.validator),
                                            a.rent_reimbursement,
                                            validator_fees_vault_pda(a.validator))

\* the undelegation flag is not looked at
undelegate_latch_check_missing(L, a) ==
    IF DelegationRecordOf(L).owner # a.owner_program
    THEN Err("InvalidAccountOwner", L)
    ELSE undelegate_effects(L, a)

\* the owner program must be the recorded one and the account undelegatable
undelegate_latch_check(L, a) ==
    IF DelegationRecordOf(L).owner # a.owner_program
    THEN Err("InvalidAccountOwner", L)
    ELSE IF ~DelegationMetadataOf(L).is_undelegatable
    THEN Err("NotUndelegatable", L)
    ELSE undelegate_effects(L, a)

\* a pending commit is not looked for
undelegate_pending_check_missing(L, a) == undelegate_latch_check(L, a)

\* no pending commit may wait to be finalized
undelegate_pending_check(L, a) ==
    IF require_uninitialized_pda(L, "cs", "CommitState") # ""
    THEN Err(require_uninitialized_pda(L, "cs", "CommitState"), L)
    ELSE IF require_uninitialized_pda(L, "cr", "CommitRecord") # ""
    THEN Err(require_uninitialized_pda(L, "cr", "CommitRecord"), L)
    ELSE undelegate_latch_check(L, a)

\* the account checks that open process_undelegate: "" when they pass
undelegate_account_checks(L, a) ==
    IF ~a.signer THEN "MissingRequiredSignature"
    ELSE IF L["da"].owner # DLP THEN "InvalidAccountOwner"
    ELSE IF require_initialized_pda(L, "dr") # "" THEN require_initialized_pda(L, "dr")
    ELSE IF require_initialized_pda(L, "dm") # "" THEN require_initialized_pda(L, "dm")
    ELSE IF require_initialized_pda(L, "fees_vault") # ""
    THEN require_initialized_pda(L, "fees_vault")
    ELSE require_initialized_pda(L, validator_fees_vault_pda(a.validator))

\* a: [validator, signer, owner_program, rent_reimbursement, cpi]
process_undelegate(L, a) ==
    IF undelegate_account_checks(L, a) # "" THEN Err(undelegate_account_checks(L, a), L)
    ELSE undelegate_pending_check(L, a)

(***************************************************************************)
(* State                                                                   *)
(***************************************************************************)
VARIABLES
    ledger,   \* the storage cells: address -> [owner, lamports, data]
    last,     \* the last invocation applied and whether the latest was rejected
    hist,     \* history of the current delegation (observation only)
    codec     \* the diff codec's inputs and outputs (SpecDiff)

vars == <<ledger, last, hist, codec>>

CodecIdle == [phase |-> "idle", original |-> <<>>, changed |-> <<>>,
              diff |-> <<>>, destination |-> <<>>,
              applied |-> [ok |-> FALSE, err |-> "", data |-> <<>>],
              aligned |-> TRUE, index |-> 0, item |-> [kind |-> "None"]]

\* the instruction's writes are kept whatever it returns
process_instruction_keeping_writes(L, r) == r.st

\* the runtime applies an instruction's writes only when it returns Ok; an
\* instruction that returns an error aborts its transaction and nothing is kept
process_instruction(L, r) == IF r.res = "Ok" THEN r.st ELSE L

\* what the model remembers of the current delegation: accepted commits,
\* finalized commits, whether a commit with allow_undelegation was accepted and
\* finalized, who sent the last accepted commit and the lamport sums right after it
NoHistory == [accepted |-> 0, finalized |-> 0,
              latched |-> FALSE, latch_finalized |-> FALSE,
              committer |-> "V1", sum3 |-> 0, sum5 |-> 0]

\* last.applied: the last invocation that returned Ok; last.rejected: whether
\* the invocation just processed returned an error
Recorded(op, r) ==
    IF r.res = "Ok" THEN [applied |-> op, rejected |-> FALSE]
    ELSE [applied |-> last.applied, rejected |-> TRUE]

\* lamports of the wallets and of the delegated account when it is handed over
ValidatorFunds == 10000000
PayerFunds == 5000000
AccountFunds == 1000000

\* the owner program has handed the account to the delegation program (test
\* program, delegate): the account is assigned to DLP and zeroed, its bytes wait
\* in the delegate buffer; V1 and V2 have a fee vault, V3 has none
InitLedger ==
    [k \in Cells |->
        CASE k = "da" -> [owner |-> DLP, lamports |-> AccountFunds, data |-> <<0>>]
          [] k = "db" -> [owner |-> OwnerProg, lamports |-> 0, data |-> <<1>>]
          [] k \in Validators -> [owner |-> SYSTEM, lamports |-> ValidatorFunds, data |-> <<>>]
          [] k \in Payers -> [owner |-> SYSTEM, lamports |-> PayerFunds, data |-> <<>>]
          [] k \in {"vault_V1", "vault_V2", "fees_vault"} ->
                 [owner |-> DLP, lamports |-> minimum_balance(0), data |-> <<>>]
          [] OTHER -> Uninitialized]

Init ==
    /\ ledger = InitLedger
    /\ last = [applied |-> "None", rejected |-> FALSE]
    /\ hist = NoHistory
    /\ codec = CodecIdle

\* lamports held by the delegated account, the commit state cell and the fee
\* vault of validator v
Sum3(L, v) == L["da"].lamports + L["cs"].lamports + L[validator_fees_vault_pda(v)].lamports
\* the same plus the commit record cell and the validator's own balance
Sum5(L, v) == Sum3(L, v) + L["cr"].lamports + L[v].lamports

\* whether the commit state cell or the commit record cell exists
Pending(L) == L["cs"].owner = DLP \/ L["cr"].owner = DLP

\* whether the account is delegated: owned by DLP with its record and metadata
Delegated(L) == L["da"].owner = DLP /\ L["dr"].owner = DLP /\ L["dm"].owner = DLP

(***************************************************************************)
(* Invocations and the inputs they are tried with                          *)
(***************************************************************************)
\* every combination naming V1; the well-formed one for the other authorities
DelegateInputs ==
    {a \in [payer : Payers, payer_signer : BOOLEAN, delegated_signer : BOOLEAN,
            owner_program : {OwnerProg, SYSTEM}, validator : {"None", "V1", ANY_VALIDATOR},
            seeds : {TEST_PDA_SEED, <<>>}] :
        \/ a.validator = "V1"
        \/ /\ a.payer_signer /\ a.delegated_signer
           /\ a.owner_program = OwnerProg /\ a.seeds = TEST_PDA_SEED}

Delegate ==
    \E a \in DelegateInputs :
        LET r == process_delegate(ledger, a)
        IN  /\ ledger' = process_instruction(ledger, r)
            /\ last' = Recorded("Delegate", r)
            /\ hist' = IF r.res = "Ok" THEN NoHistory ELSE hist
            /\ UNCHANGED codec

Nonces == 1..(MaxNonce + 1)
\* less than, equal to and more than what the account holds when handed over
LamportValues == {0, AccountFunds, 2 * AccountFunds}
\* the bytes commits carry: none, and one byte that differs from the account's
DataValues == {<<>>, <<0>>}

\* V1 signing tries every combination; V2 signing tries one commit per nonce;
\* V3 and the unsigned callers try one commit
Plain(a) == a.lamports = AccountFunds /\ ~a.allow_undelegation
Tried(a) ==
    \/ a.validator = "V1" /\ a.signer
    \/ a.validator = "V2" /\ a.signer /\ Plain(a)
    \/ a.nonce = 1 /\ Plain(a)

CommitInputs ==
    {a \in [validator : Validators, signer : BOOLEAN, nonce : Nonces,
            lamports : LamportValues, allow_undelegation : BOOLEAN, data : DataValues] :
        Tried(a) /\ ((a.validator = "V1" /\ a.signer) \/ a.data = <<0>>)}

\* what an accepted commit adds to the history
CommitHistory(L, a) ==
    [hist EXCEPT !.accepted = @ + 1,
                 !.latched = (hist.latched \/ a.allow_undelegation),
                 !.committer = a.validator,
                 !.sum3 = Sum3(L, a.validator),
                 !.sum5 = Sum5(L, a.validator)]

CommitState ==
    \E a \in CommitInputs :
        LET r == process_commit_state(ledger, a)
        IN  /\ r.res = "Ok" => a.nonce <= MaxNonce
            /\ ledger' = process_instruction(ledger, r)
            /\ last' = Recorded("CommitState", r)
            /\ hist' = IF r.res = "Ok" THEN CommitHistory(r.st, a) ELSE hist
            /\ UNCHANGED codec

CommitStateFromBuffer ==
    \E a \in CommitInputs :
        LET r == process_commit_state_from_buffer(ledger, a)
        IN  /\ r.res = "Ok" => a.nonce <= MaxNonce
            /\ ledger' = process_instruction(ledger, r)
            /\ last' = Recorded("CommitStateFromBuffer", r)
            /\ hist' = IF r.res = "Ok" THEN CommitHistory(r.st, a) ELSE hist
            /\ UNCHANGED codec

\* a diff cut short inside its header, and a diff whose only segment lies
\* outside the changed length it declares
TruncatedDiff == <<1, 0, 0, 0, 1, 0>>
OutOfRangeDiff == to_le_bytes(1) \o to_le_bytes(1) \o to_le_bytes(0) \o to_le_bytes(5) \o <<1>>

\* the diff payloads tried on the account bytes of L: the diff to each of
\* DataValues, and the two malformed ones
DiffPayloads(L) ==
    {borsh_vec(compute_diff(L["da"].data, d)) : d \in DataValues}
        \cup {borsh_vec(TruncatedDiff), borsh_vec(OutOfRangeDiff)}

\* whether a Borsh Vec<u8> payload parses and applies to the bytes of the account
Wellformed(L, payload) ==
    /\ try_new_from_borsh_vec(payload).ok
    /\ apply_diff_copy(L["da"].data, try_new_from_borsh_vec(payload)).ok

\* as CommitInputs; the malformed payloads are tried with plain arguments
CommitDiffInputs(L) ==
    {a \in [validator : Validators, signer : BOOLEAN, nonce : Nonces,
            lamports : LamportValues, allow_undelegation : BOOLEAN, data : DiffPayloads(L)] :
        /\ Tried(a)
        /\ \/ a.validator = "V1" /\ a.signer /\ (Wellformed(L, a.data) \/ Plain(a))
           \/ a.data = borsh_vec(compute_diff(L["da"].data, <<0>>))}

CommitDiff ==
    \E a \in CommitDiffInputs(ledger) :
        LET r == process_commit_diff(ledger, a)
        IN  /\ r.res = "Ok" => a.nonce <= MaxNonce
            /\ ledger' = process_instruction(ledger, r)
            /\ last' = Recorded("CommitDiff", r)
            /\ hist' = IF r.res = "Ok" THEN CommitHistory(r.st, a) ELSE hist
            /\ UNCHANGED codec

FinalizeInputs == [validator : Validators, signer : BOOLEAN]

Finalize ==
    \E a \in FinalizeInputs :
        LET r == process_finalize(ledger, a)
        IN  /\ ledger' = process_instruction(ledger, r)
            /\ last' = Recorded("Finalize", r)
            /\ hist' = IF r.res = "Ok" /\ Pending(ledger)
                       THEN [hist EXCEPT !.finalized = @ + 1,
                                         !.latch_finalized = hist.latched]
                       ELSE hist
            /\ UNCHANGED codec

\* V1 and V2 signing try every combination; an unsigned validator and V3 try the
\* well-behaved one
UndelegateInputs ==
    {a \in [validator : Validators, signer : BOOLEAN, owner_program : {OwnerProg, SYSTEM},
            rent_reimbursement : Payers \cup {"V1"}, cpi : CpiBehaviours] :
        \/ a.signer /\ a.validator # "V3"
        \/ a.owner_program = OwnerProg /\ a.rent_reimbursement = "Payer" /\ a.cpi = "ok"}

Undelegate ==
    \E a \in UndelegateInputs :
        LET r == process_undelegate(ledger, a)
        IN  /\ ledger' = process_instruction(ledger, r)
            /\ last' = Recorded("Undelegate", r)
            /\ UNCHANGED <<hist, codec>>

Next ==
    \/ Delegate
    \/ CommitState
    \/ CommitStateFromBuffer
    \/ CommitDiff
    \/ Finalize
    \/ Undelegate

Spec == Init /\ [][Next]_vars

(***************************************************************************)
(* The same invocations on a ledger where the owner program may have a     *)
(* program config                                                          *)
(***************************************************************************)
\* the program config cell of OwnerProg, listing the approved validators
ProgramConfigCell(approved) ==
    [owner |-> DLP, lamports |-> minimum_balance(0),
     data |-> <<[approved_validators |-> approved]>>]

\* the owner program has no config, or one that approves V1 only
InitConfig ==
    /\ ledger \in {InitLedger, [InitLedger EXCEPT !["config"] = ProgramConfigCell({"V1"})]}
    /\ last = [applied |-> "None", rejected |-> FALSE]
    /\ hist = NoHistory
    /\ codec = CodecIdle

SpecConfig == InitConfig /\ [][Next]_vars

(***************************************************************************)
(* The diff codec as a state machine: inputs drawn in InitDiff             *)
(***************************************************************************)
\* compute_diff(original, changed) -> AlignedVec
DiffCompute ==
    /\ codec.phase = "input"
    /\ codec' = [codec EXCEPT !.phase = "computed",
                              !.diff = compute_diff(codec.original, codec.changed)]
    /\ UNCHANGED <<ledger, last, hist>>

\* DiffSet::try_new(&diff) on the AlignedVec (16-byte aligned), then apply_diff_copy
DiffApply ==
    /\ codec.phase = "computed"
    /\ LET ds == try_new(codec.diff, TRUE)
       IN  codec' = [codec EXCEPT !.phase = "applied",
                                  !.applied = IF ds.ok
                                              THEN apply_diff_copy(codec.original, ds)
                                              ELSE [ok |-> FALSE, err |-> ds.err, data |-> <<>>]]
    /\ UNCHANGED <<ledger, last, hist>>

\* the destinations merge_diff_copy is tried with for an original: zeroed, a
\* copy of the original, filled with the highest byte, differing from the
\* original in every byte, and one byte longer
MergeDestinations(original) ==
    {Zeros(Len(original)), original, [k \in 1..Len(original) |-> MaxByte],
     [k \in 1..Len(original) |-> (original[k] + 1) % (MaxByte + 1)],
     Zeros(Len(original) + 1)}

\* merge_diff_copy(&mut destination, &original, &DiffSet::try_new(&diff))
DiffMerge ==
    /\ codec.phase = "computed"
    /\ \E destination \in MergeDestinations(codec.original) :
          LET ds == try_new(codec.diff, TRUE)
          IN  codec' = [codec EXCEPT
                           !.phase = "merged",
                           !.destination = destination,
                           !.applied = IF ds.ok
                                       THEN merge_diff_copy(destination, codec.original, ds)
                                       ELSE [ok |-> FALSE, err |-> ds.err,
                                             data |-> destination]]
    /\ UNCHANGED <<ledger, last, hist>>

\* apply_diff_in_place(&mut original, &DiffSet::try_new(&diff))
DiffApplyInPlace ==
    /\ codec.phase = "computed"
    /\ LET ds == try_new(codec.diff, TRUE)
       IN  codec' = [codec EXCEPT
                        !.phase = "applied_in_place",
                        !.applied = IF ds.ok
                                    THEN apply_diff_in_place(codec.original, ds)
                                    ELSE [ok |-> FALSE, err |-> ds.err,
                                          data |-> codec.original]]
    /\ UNCHANGED <<ledger, last, hist>>

NextDiff == DiffCompute \/ DiffApply \/ DiffMerge \/ DiffApplyInPlace

\* the changed buffer of test_using_example_data: 100 zero bytes with
\* 0x01020304u32.to_le_bytes() at 11..=14 and
\* 0x0102030405060708u64.to_le_bytes() at 71..=78
ExampleChanged ==
    [k \in 1..100 |-> CASE k \in 12..15 -> 16 - k
                        [] k \in 72..79 -> 80 - k
                        [] OTHER -> 0]

InitDiff ==
    /\ ledger = InitLedger
    /\ last = [applied |-> "None", rejected |-> FALSE]
    /\ hist = NoHistory
    /\ codec \in {[CodecIdle EXCEPT !.phase = "input", !.original = A, !.changed = B] :
                     A \in Buffers, B \in Buffers}
                 \cup {[CodecIdle EXCEPT !.phase = "input", !.original = Zeros(100),
                                         !.changed = B] : B \in {Zeros(100), ExampleChanged}}

SpecDiff == InitDiff /\ [][NextDiff]_vars

(***************************************************************************)
(* The diff parser and the reconstructions on diffs that compute_diff did  *)
(* not produce: a diff arrives as instruction data, written by the caller  *)
(***************************************************************************)
\* the bytes of a diff in the wire format, with a declared segment count that
\* need not be the number of pairs that follow
raw_diff(changed_len, declared_count, pairs, payload) ==
    to_le_bytes(changed_len) \o to_le_bytes(declared_count)
        \o Concat([k \in 1..Len(pairs) |->
                      to_le_bytes(pairs[k][1]) \o to_le_bytes(pairs[k][2])])
        \o payload

\* (offset_in_diff, offset_in_data) of a pair; lists of no, one and two pairs
OffsetPairValues == (0..MaxBufLen) \X (0..MaxBufLen)
OffsetPairLists ==
    {<<>>} \cup {<<p>> : p \in OffsetPairValues}
           \cup {<<p, q>> : p \in OffsetPairValues, q \in OffsetPairValues}

\* concatenated segment bytes in which neighbouring bytes differ
Payloads == {[k \in 1..n |-> k % (MaxByte + 1)] : n \in 0..MaxBufLen}

\* diffs as a caller can send them: cut short within the 8 header bytes, with
\* as many pairs as declared, with one pair fewer than declared, and with a
\* changed_len of 0xFFFFFFFF and one segment at 0xFFFFFFFE
RawDiffs ==
    {Slice(raw_diff(c, 0, <<>>, <<>>), 0, n) : c \in 0..MaxBufLen, n \in 0..8}
    \cup {raw_diff(c, Len(pairs) + more, pairs, payload) :
             c \in 0..MaxBufLen, more \in {0, 1},
             pairs \in OffsetPairLists, payload \in Payloads}
    \cup {raw_diff(-1, 1, <<<<0, -2>>>>, payload) : payload \in Payloads}

\* DiffSet::try_new(diff), the buffer 4-byte aligned or not
RawParse ==
    /\ codec.phase = "raw"
    /\ \E aligned \in BOOLEAN :
          LET ds == try_new(codec.diff, aligned)
          IN  codec' = [codec EXCEPT !.phase = "parsed", !.aligned = aligned,
                                     !.applied = [ok |-> ds.ok, err |-> ds.err,
                                                  data |-> <<>>]]
    /\ UNCHANGED <<ledger, last, hist>>

\* diffset.diff_segment_at(index) on a diff that parsed; DiffSet::iter makes
\* this call for each index below segments_count
RawSegmentAt ==
    /\ codec.phase = "parsed" /\ codec.applied.ok
    /\ LET ds == try_new(codec.diff, codec.aligned)
       IN  \E index \in 0..ds.segments_count, overflow_checks \in BOOLEAN :
              LET item == diff_segment_at(ds, index)
              IN  codec' = [codec EXCEPT
                               !.phase = "segment", !.index = index,
                               !.item = IF item.kind # "Overflow" THEN item
                                        ELSE IF overflow_checks THEN [kind |-> "Panic"]
                                        ELSE item.wrapping]
    /\ UNCHANGED <<ledger, last, hist>>

\* originals the reconstructions are tried on: every length, filled with one byte
FilledBuffers == {[k \in 1..n |-> b] : n \in 0..MaxBufLen, b \in Byte}

\* apply_diff_copy(&original, &diffset) on a diff that parsed and whose
\* changed_len is a size that can be allocated
RawApplyCopy ==
    /\ codec.phase = "parsed" /\ codec.applied.ok
    /\ try_new(codec.diff, codec.aligned).changed_len \in 0..MaxBufLen
    /\ \E original \in FilledBuffers :
          codec' = [codec EXCEPT
                       !.phase = "copied", !.original = original,
                       !.applied = apply_diff_copy(original,
                                                   try_new(codec.diff, codec.aligned))]
    /\ UNCHANGED <<ledger, last, hist>>

\* merge_diff_copy(&mut destination, &original, &diffset) on a diff that
\* parsed, the original as long as the diff's changed_len
RawMergeCopy ==
    /\ codec.phase = "parsed" /\ codec.applied.ok
    /\ \E original \in {A \in FilledBuffers :
                           Len(A) = try_new(codec.diff, codec.aligned).changed_len} :
       \E destination \in MergeDestinations(original) :
          codec' = [codec EXCEPT
                       !.phase = "merged", !.original = original,
                       !.destination = destination,
                       !.applied = merge_diff_copy(destination, original,
                                                   try_new(codec.diff, codec.aligned))]
    /\ UNCHANGED <<ledger, last, hist>>

NextRaw == RawParse \/ RawSegmentAt \/ RawApplyCopy \/ RawMergeCopy

InitRaw ==
    /\ ledger = InitLedger
    /\ last = [applied |-> "None", rejected |-> FALSE]
    /\ hist = NoHistory
    /\ codec \in {[CodecIdle EXCEPT !.phase = "raw", !.diff = d] : d \in RawDiffs}

SpecRaw == InitRaw /\ [][NextRaw]_vars

(***************************************************************************)
(* Properties                                                              *)
(***************************************************************************)
\* the nonce the next accepted commit must carry
Expected(L) == DelegationMetadataOf(L).last_update_nonce + 1

CommitOps == {"CommitState", "CommitStateFromBuffer", "CommitDiff"}

\* the result of CommitState and of CommitStateFromBuffer on input a
CommitResults(L, a) ==
    {process_commit_state(L, a).res, process_commit_state_from_buffer(L, a).res}

\* C1 (as amended): while the delegation metadata exists, every commit whose
\* nonce is not last_update_nonce + 1 fails for every validator, lamports, flag
\* and payload tried; when the account checks pass the error is NonceOutOfOrder,
\* except that a CommitDiff whose diff does not parse or apply fails with
\* InvalidDiff.  After one accepted commit a commit with nonce 3 fails with
\* NonceOutOfOrder.
C1_WrongNonceRejected ==
    ledger["dm"].owner = DLP =>
        /\ \A a \in CommitInputs : a.nonce # Expected(ledger) =>
              /\ "Ok" \notin CommitResults(ledger, a)
              /\ commit_account_checks(ledger, a) = ""
                    => CommitResults(ledger, a) = {"NonceOutOfOrder"}
        /\ \A a \in CommitDiffInputs(ledger) : a.nonce # Expected(ledger) =>
              /\ process_commit_diff(ledger, a).res # "Ok"
              /\ commit_account_checks(ledger, a) = "" /\ Wellformed(ledger, a.data)
                    => process_commit_diff(ledger, a).res = "NonceOutOfOrder"
              /\ ~Wellformed(ledger, a.data)
                    => process_commit_diff(ledger, a).res = "InvalidDiff"
        /\ hist.accepted = 1 =>
              \A a \in CommitInputs :
                  a.validator = hist.committer /\ a.signer /\ a.nonce = 3
                      => process_commit_state(ledger, a).res = "NonceOutOfOrder"

\* a commit with nonce 1 was accepted and a later commit was rejected, in a state
\* where a signed commit with nonce 3 meets NonceOutOfOrder
C1_Witness ==
    /\ hist.accepted = 1 /\ last.applied = "CommitState" /\ last.rejected
    /\ Pending(ledger) /\ CommitRecordOf(ledger).nonce = 1
    /\ \E a \in CommitInputs :
          /\ a.validator = "V1" /\ a.signer /\ a.nonce = 3 /\ a.allow_undelegation
          /\ process_commit_state(ledger, a).res = "NonceOutOfOrder"

\* C1 as stated: whenever the account checks pass, a commit with a wrong nonce
\* fails with NonceOutOfOrder, CommitDiff included, whatever its payload
C1_Original ==
    ledger["dm"].owner = DLP =>
        /\ \A a \in CommitInputs : a.nonce # Expected(ledger) =>
              /\ "Ok" \notin CommitResults(ledger, a)
              /\ commit_account_checks(ledger, a) = ""
                    => CommitResults(ledger, a) = {"NonceOutOfOrder"}
        /\ \A a \in CommitDiffInputs(ledger) : a.nonce # Expected(ledger) =>
              /\ process_commit_diff(ledger, a).res # "Ok"
              /\ commit_account_checks(ledger, a) = ""
                    => process_commit_diff(ledger, a).res = "NonceOutOfOrder"

\* C2: once a commit with allow_undelegation was accepted, is_undelegatable is
\* true for as long as the delegation metadata exists and every commit tried
\* fails, before and after the Finalize of the latching commit; with the account
\* checks passing, a well-formed payload and the correct nonce the error is
\* AlreadyUndelegated.
C2_UndelegatableLatch ==
    hist.latched /\ ledger["dm"].owner = DLP =>
        /\ DelegationMetadataOf(ledger).is_undelegatable
        /\ \A a \in CommitInputs :
              /\ "Ok" \notin CommitResults(ledger, a)
              /\ commit_account_checks(ledger, a) = "" /\ a.nonce = Expected(ledger)
                    => CommitResults(ledger, a) = {"AlreadyUndelegated"}
        /\ \A a \in CommitDiffInputs(ledger) :
              /\ process_commit_diff(ledger, a).res # "Ok"
              /\ (commit_account_checks(ledger, a) = "" /\ Wellformed(ledger, a.data)
                     /\ a.nonce = Expected(ledger))
                    => process_commit_diff(ledger, a).res = "AlreadyUndelegated"

\* the latching commit was finalized and a later commit with the next nonce was
\* rejected with AlreadyUndelegated
C2_Witness ==
    /\ hist.latch_finalized /\ last.applied = "Finalize" /\ last.rejected
    /\ Delegated(ledger) /\ ~Pending(ledger)
    /\ \E a \in CommitInputs :
          /\ a.nonce = Expected(ledger) /\ ~a.allow_undelegation
          /\ process_commit_state(ledger, a).res = "AlreadyUndelegated"

\* C3: the commit state cell and the commit record cell exist together or not
\* at all, and while they exist every commit tried fails.
C3_OneOutstandingCommit ==
    /\ (ledger["cs"].owner = DLP) <=> (ledger["cr"].owner = DLP)
    /\ (ledger["cs"].owner = SYSTEM /\ ledger["cs"].lamports = 0) \/ ledger["cs"].owner = DLP
    /\ Pending(ledger) =>
          /\ \A a \in CommitInputs : "Ok" \notin CommitResults(ledger, a)
          /\ \A a \in CommitDiffInputs(ledger) : process_commit_diff(ledger, a).res # "Ok"

\* a commit is outstanding and a second commit carrying the expected nonce was
\* rejected because the cells exist
C3_Witness ==
    /\ Pending(ledger) /\ last.rejected /\ last.applied \in CommitOps
    /\ ~DelegationMetadataOf(ledger).is_undelegatable
    /\ \E a \in CommitInputs :
          /\ a.nonce = Expected(ledger)
          /\ process_commit_state(ledger, a).res = "CommitStateInvalidAccountOwner"

\* C4: while the delegation metadata exists, last_update_nonce is the number of
\* commits finalized in this delegation; an outstanding commit is the next one
\* and carries as nonce its rank among the accepted commits; with none
\* outstanding every accepted commit has been finalized.
C4_NonceCountsCommits ==
    ledger["dm"].owner = DLP =>
        /\ DelegationMetadataOf(ledger).last_update_nonce = hist.finalized
        /\ Pending(ledger) =>
              /\ hist.accepted = hist.finalized + 1
              /\ CommitRecordOf(ledger).nonce = hist.accepted
        /\ ~Pending(ledger) => hist.accepted = hist.finalized

\* the second accepted commit of a delegation was finalized: nonce 2
C4_Witness ==
    /\ Delegated(ledger) /\ last.applied = "Finalize" /\ ~last.rejected
    /\ hist.accepted = 2 /\ hist.finalized = 2
    /\ DelegationMetadataOf(ledger).last_update_nonce = 2

\* C5: an invocation that returns an error changes no cell: no record, no
\* metadata, no commit cell, no bytes, no owner, no balance.
C5_ErrorsChangeNothing ==
    [][last'.rejected => (ledger' = ledger /\ hist' = hist)]_vars

\* a commit was rejected while another is outstanding, in a state where a commit
\* is rejected by the commit state check after the handler has set the flag in
\* the metadata and moved the collateral to the commit state cell
C5_Witness ==
    /\ last.rejected /\ last.applied \in CommitOps /\ Pending(ledger)
    /\ \E a \in CommitInputs :
          LET r == process_commit_state(ledger, a)
          IN  /\ r.res = "CommitStateInvalidAccountOwner"
              /\ r.st["dm"].data[1].is_undelegatable
              /\ ~DelegationMetadataOf(ledger).is_undelegatable
              /\ r.st["cs"].lamports > ledger["cs"].lamports

\* C6: while a commit state cell or a commit record cell exists every Undelegate
\* tried fails, and after a successful Undelegate every accepted commit of the
\* delegation has been finalized and no commit cell is left.
C6_NoUndelegateWhilePending ==
    /\ Pending(ledger) =>
          \A a \in UndelegateInputs : process_undelegate(ledger, a).res # "Ok"
    /\ last.applied = "Undelegate" =>
          hist.accepted = hist.finalized /\ ~Pending(ledger)

\* the latching commit is outstanding and an Undelegate that passes every other
\* check was rejected for the commit state cell
C6_Witness ==
    /\ Pending(ledger) /\ last.rejected /\ last.applied \in CommitOps
    /\ DelegationMetadataOf(ledger).is_undelegatable
    /\ \E a \in UndelegateInputs :
          /\ undelegate_account_checks(ledger, a) = "" /\ a.cpi = "ok"
          /\ a.owner_program = OwnerProg /\ a.rent_reimbursement = "Payer"
          /\ process_undelegate(ledger, a).res = "CommitStateInvalidAccountOwner"

C8_FinalizeNoOp ==
    /\ (Delegated(ledger) /\ ~Pending(ledger)) =>
          \A a \in FinalizeInputs :
              (a.signer /\ ledger[validator_fees_vault_pda(a.validator)].owner = DLP)
                  => process_finalize(ledger, a) = Ok(ledger)
    /\ (ledger["dr"].owner = DLP \/ ledger["dm"].owner = DLP) =>
          \A a \in DelegateInputs : process_delegate(ledger, a).res # "Ok"
    /\ ledger["dm"].owner = DLP =>
          /\ \A a \in CommitInputs :
                (\/ a.nonce <= DelegationMetadataOf(ledger).last_update_nonce
                 \/ (Pending(ledger) /\ a.nonce = CommitRecordOf(ledger).nonce))
                    => "Ok" \notin CommitResults(ledger, a)
          /\ \A a \in CommitDiffInputs(ledger) :
                (\/ a.nonce <= DelegationMetadataOf(ledger).last_update_nonce
                 \/ (Pending(ledger) /\ a.nonce = CommitRecordOf(ledger).nonce))
                    => process_commit_diff(ledger, a).res # "Ok"
    /\ last.applied = "Undelegate" =>
          \A a \in UndelegateInputs : process_undelegate(ledger, a).res # "Ok"

\* Finalize returned Ok on a delegated account for which no commit was accepted
C8_Witness ==
    /\ last.applied = "Finalize" /\ ~last.rejected
    /\ Delegated(ledger) /\ hist.accepted = 0 /\ ~Pending(ledger)

\* C9 (as amended): right after the Finalize of a commit, the lamports of the
\* delegated account, the commit state cell, the commit record cell, the fee
\* vault of the committing validator and that validator's own account add up to
\* what they added up to right after the commit.
C9_LamportsConserved ==
    (last.applied = "Finalize" /\ hist.finalized >= 1) =>
        Sum5(ledger, hist.committer) = hist.sum5

\* a commit declaring more lamports than the record holds was finalized: the
\* collateral reached the delegated account
C9_Witness ==
    /\ last.applied = "Finalize" /\ ~last.rejected /\ hist.finalized = 1
    /\ ledger["da"].lamports = 2 * AccountFunds
    /\ Sum5(ledger, hist.committer) = hist.sum5

\* C9 as stated: the lamports of the delegated account, the commit state cell
\* and the validator fee vault add up after Finalize to what they added up to
\* after the commit
C9_Original ==
    (last.applied = "Finalize" /\ hist.finalized >= 1) =>
        Sum3(ledger, hist.committer) = hist.sum3

\* C10: for all buffers A and B, the diff computed from A to B parses, and
\* applying it to a copy of A gives B.
C10_RoundTrip ==
    codec.phase = "applied" =>
        /\ codec.applied.ok
        /\ codec.applied.data = codec.changed

\* a diff was applied that both rewrites a byte of A and extends it
C10_Witness ==
    /\ codec.phase = "applied" /\ codec.applied.ok
    /\ Len(codec.original) > 0 /\ Len(codec.changed) > Len(codec.original)
    /\ codec.original[1] # codec.changed[1]
    /\ codec.changed[Len(codec.changed)] # 0
    /\ codec.applied.data = codec.changed

\* the commits that repeat the outstanding commit: same nonce, signed by the
\* validator that made it
Repeats(L, a) ==
    /\ a.nonce = CommitRecordOf(L).nonce
    /\ a.validator = CommitRecordOf(L).identity /\ a.signer

\* C11 (as amended): while a commit is outstanding, a second commit carrying
\* the same nonce fails: with AlreadyUndelegated when the first set the
\* undelegation flag, otherwise with the commit state cell's
\* InvalidAccountOwner error (the cell is no more owned by the system program)
\* when sent by the same validator; the two cells stay as the first commit
\* wrote them.
C11_SecondCommitFails ==
    Pending(ledger) =>
        /\ CommitRecordOf(ledger).nonce = Expected(ledger)
        /\ \A a \in CommitInputs : a.nonce = Expected(ledger) =>
              /\ "Ok" \notin CommitResults(ledger, a)
              /\ Repeats(ledger, a) =>
                    CommitResults(ledger, a) =
                        IF DelegationMetadataOf(ledger).is_undelegatable
                        THEN {"AlreadyUndelegated"}
                        ELSE {"CommitStateInvalidAccountOwner"}
              /\ LET after == process_instruction(ledger, process_commit_state(ledger, a))
                 IN  after["cs"] = ledger["cs"] /\ after["cr"] = ledger["cr"]
        /\ \A a \in CommitDiffInputs(ledger) :
              (Repeats(ledger, a) /\ Wellformed(ledger, a.data)) =>
                  process_commit_diff(ledger, a).res =
                      IF DelegationMetadataOf(ledger).is_undelegatable
                      THEN "AlreadyUndelegated"
                      ELSE "CommitStateInvalidAccountOwner"

\* the first commit of the delegation is outstanding, it did not ask for
\* undelegation, and a second commit with nonce 1 by the same validator was
\* rejected for the commit state cell
C11_Witness ==
    /\ hist.accepted = 1 /\ Pending(ledger) /\ last.rejected
    /\ last.applied \in CommitOps /\ ~hist.latched
    /\ \E a \in CommitInputs :
          /\ Repeats(ledger, a) /\ a.data # ledger["cs"].data
          /\ process_commit_state_from_buffer(ledger, a).res
                 = "CommitStateInvalidAccountOwner"

\* C11 as stated: the second commit with the same nonce by the same validator
\* fails with the commit state cell's AlreadyInitialized error
C11_Original ==
    Pending(ledger) =>
        \A a \in CommitInputs :
            (a.nonce = Expected(ledger) /\ Repeats(ledger, a)) =>
                CommitResults(ledger, a) = {"CommitStateAlreadyInitialized"}

\* the lamports Finalize owes the delegated account out of the commit state
\* cell: declared minus prior when the commit declared more, else nothing
Surplus(L) ==
    IF CommitRecordOf(L).lamports > DelegationRecordOf(L).lamports
    THEN CommitRecordOf(L).lamports - DelegationRecordOf(L).lamports ELSE 0

\* the lamports Finalize owes the validator fee vault out of the delegated
\* account: prior minus declared when the commit declared less, else nothing
Shortfall(L) ==
    IF DelegationRecordOf(L).lamports > CommitRecordOf(L).lamports
    THEN DelegationRecordOf(L).lamports - CommitRecordOf(L).lamports ELSE 0

\* C12: a Finalize of the outstanding commit that returns Ok leaves the
\* delegated account with the bytes (and so the length) of the commit state
\* cell, leaves both commit cells uninitialized, and has credited the calling
\* validator with everything the two cells held after the settlement.
C12_FinalizeInstallsCommit ==
    Pending(ledger) =>
        \A a \in FinalizeInputs :
            LET r == process_finalize(ledger, a)
            IN  r.res = "Ok" =>
                    /\ r.st["da"].data = ledger["cs"].data
                    /\ r.st["cs"] = Uninitialized /\ r.st["cr"] = Uninitialized
                    /\ r.st[a.validator].lamports =
                           ledger[a.validator].lamports
                               + (ledger["cs"].lamports - Surplus(ledger))
                               + ledger["cr"].lamports

\* a commit that empties the account was finalized: the account shrank from
\* one byte to none and the cells are gone
C12_Witness ==
    /\ last.applied = "Finalize" /\ ~last.rejected /\ hist.finalized >= 1
    /\ Delegated(ledger) /\ ledger["da"].data = <<>>
    /\ ledger["cs"] = Uninitialized /\ ledger["cr"] = Uninitialized
    /\ ledger[hist.committer].lamports < ValidatorFunds

\* C13: a Finalize of the outstanding commit that returns Ok, with P the
\* lamports of the delegation record and C those of the commit record: takes
\* P - C from the delegated account into the validator fee vault when P > C,
\* gives C - P to the delegated account (out of the commit state cell) and
\* leaves the vault alone when C > P, moves nothing when P = C; the delegation
\* record then holds the balance of the delegated account.
C13_FinalizeSettles ==
    Pending(ledger) =>
        \A a \in FinalizeInputs :
            LET r == process_finalize(ledger, a)
                vault == validator_fees_vault_pda(a.validator)
            IN  r.res = "Ok" =>
                    /\ r.st["da"].lamports =
                           (ledger["da"].lamports + Surplus(ledger)) - Shortfall(ledger)
                    /\ r.st[vault].lamports = ledger[vault].lamports + Shortfall(ledger)
                    /\ ledger["cs"].lamports >= Surplus(ledger)
                    /\ DelegationRecordOf(r.st).lamports = r.st["da"].lamports

\* a commit declaring fewer lamports than recorded was finalized: the fee
\* vault of the committer gained and the record follows the account
C13_Witness ==
    /\ last.applied = "Finalize" /\ ~last.rejected /\ hist.finalized >= 1
    /\ Delegated(ledger)
    /\ ledger[validator_fees_vault_pda(hist.committer)].lamports > minimum_balance(0)
    /\ ledger["da"].lamports < AccountFunds
    /\ DelegationRecordOf(ledger).lamports = ledger["da"].lamports

\* C14: an accepted commit that declares more lamports than the delegation
\* record holds leaves the commit state cell with at least the difference,
\* paid by the calling validator (who pays what the two cells hold); one that
\* declares no more leaves the cell with its rent only.  So an outstanding
\* commit always holds the surplus its Finalize owes the delegated account,
\* and the Finalize by its validator succeeds.
C14_CollateralDeposited ==
    /\ ledger["dm"].owner = DLP =>
          \A a \in CommitInputs :
              LET r == process_commit_state(ledger, a)
                  recorded == DelegationRecordOf(ledger).lamports
              IN  r.res = "Ok" =>
                      /\ a.lamports > recorded =>
                            /\ r.st["cs"].lamports >= a.lamports - recorded
                            /\ r.st["cs"].lamports - ledger["cs"].lamports
                                   + r.st["cr"].lamports
                                   = ledger[a.validator].lamports - r.st[a.validator].lamports
                      /\ a.lamports <= recorded =>
                            r.st["cs"].lamports = minimum_balance(Len(a.data))
    /\ Pending(ledger) =>
          /\ ledger["cs"].lamports >= Surplus(ledger)
          /\ process_finalize(ledger, [validator |-> CommitRecordOf(ledger).identity,
                                       signer |-> TRUE]).res = "Ok"

\* the first commit of the delegation was accepted declaring twice what the
\* record holds: the commit state cell holds the difference, which exceeds its
\* rent, and the validator paid for both cells
C14_Witness ==
    /\ Pending(ledger) /\ ~last.rejected /\ last.applied \in CommitOps
    /\ hist.accepted = 1 /\ Surplus(ledger) = AccountFunds
    /\ ledger["cs"].lamports = Surplus(ledger)
    /\ ledger["cs"].lamports > minimum_balance(Len(ledger["cs"].data))
    /\ ledger[hist.committer].lamports
           = ValidatorFunds - ledger["cs"].lamports - ledger["cr"].lamports

\* whether the delegation record lets validator v commit
Authorized(L, v) ==
    DelegationRecordOf(L).authority = v \/ DelegationRecordOf(L).authority = ANY_VALIDATOR

\* a commit that passes the account checks, carries the expected nonce and is
\* sent before the undelegation flag is set: it reaches the authority check
ReachesAuthorityCheck(L, a) ==
    /\ commit_account_checks(L, a) = ""
    /\ a.nonce = Expected(L)
    /\ ~DelegationMetadataOf(L).is_undelegatable

\* C15: a commit is accepted only when the calling validator is the authority
\* of the delegation record or that authority is Pubkey::default(); a commit by
\* another validator that reaches the authority check fails with
\* InvalidAuthority, the handler leaving both commit cells as they were.
C15_OnlyAuthorityCommits ==
    ledger["dm"].owner = DLP =>
        /\ \A a \in CommitInputs :
              /\ "Ok" \in CommitResults(ledger, a) => Authorized(ledger, a.validator)
              /\ (~Authorized(ledger, a.validator) /\ ReachesAuthorityCheck(ledger, a)) =>
                    /\ CommitResults(ledger, a) = {"InvalidAuthority"}
                    /\ process_commit_state(ledger, a).st["cs"] = ledger["cs"]
                    /\ process_commit_state(ledger, a).st["cr"] = ledger["cr"]
        /\ \A a \in CommitDiffInputs(ledger) :
              /\ process_commit_diff(ledger, a).res = "Ok" => Authorized(ledger, a.validator)
              /\ (/\ ~Authorized(ledger, a.validator) /\ ReachesAuthorityCheck(ledger, a)
                  /\ Wellformed(ledger, a.data))
                    => process_commit_diff(ledger, a).res = "InvalidAuthority"

\* the account is delegated to V1, no commit is outstanding, and a signed
\* commit by V2 with the expected nonce was rejected with InvalidAuthority
C15_Witness ==
    /\ Delegated(ledger) /\ ~Pending(ledger) /\ last.rejected
    /\ DelegationRecordOf(ledger).authority = "V1"
    /\ \E a \in CommitInputs :
          /\ a.validator = "V2" /\ ReachesAuthorityCheck(ledger, a)
          /\ process_commit_state(ledger, a).res = "InvalidAuthority"

C17_OnlyCommitterFinalizes ==
    Pending(ledger) =>
        /\ CommitRecordOf(ledger).account = "da"
        /\ CommitRecordOf(ledger).identity = hist.committer
        /\ \A a \in FinalizeInputs :
              LET r == process_finalize(ledger, a)
              IN  /\ r.res = "Ok" => a.validator = CommitRecordOf(ledger).identity
                  /\ a.validator # CommitRecordOf(ledger).identity =>
                        /\ r.res # "Ok" /\ r.st = ledger
                        /\ (a.signer /\ ledger[validator_fees_vault_pda(a.validator)].owner = DLP)
                              => r.res = "InvalidReimbursementAccount"

\* V1's commit is outstanding and a Finalize was rejected, in a state where
\* the Finalize signed by V2 meets InvalidReimbursementAccount
C17_Witness ==
    /\ Pending(ledger) /\ last.rejected /\ last.applied \in CommitOps
    /\ CommitRecordOf(ledger).identity = "V1"
    /\ process_finalize(ledger, [validator |-> "V2", signer |-> TRUE]).res
           = "InvalidReimbursementAccount"
    /\ process_finalize(ledger, [validator |-> "V1", signer |-> TRUE]).res = "Ok"

\* the same Undelegate with an owner program that hands the account back as
\* the program expects
Honest(a) == [a EXCEPT !.cpi = "ok"]

\* C18: on a delegated account that holds bytes, an Undelegate that returns Ok
\* leaves the account owned by the recorded owner program with exactly the
\* bytes it held before; when the owner program hands back other bytes the
\* Undelegate fails, with InvalidAccountDataAfterCPI whenever it would have
\* succeeded with the right bytes, and the account stays delegated.
C18_HandbackAuthentic ==
    (Delegated(ledger) /\ ledger["da"].data # <<>>) =>
        \A a \in UndelegateInputs :
            LET r == process_undelegate(ledger, a)
            IN  /\ r.res = "Ok" =>
                      /\ r.st["da"].data = ledger["da"].data
                      /\ r.st["da"].owner = DelegationRecordOf(ledger).owner
                      /\ r.st["ub"] = Uninitialized
                /\ a.cpi = "bad_data" =>
                      /\ r.res # "Ok"
                      /\ process_undelegate(ledger, Honest(a)).res = "Ok"
                            => r.res = "InvalidAccountDataAfterCPI"
                      /\ Delegated(process_instruction(ledger, r))
                      /\ process_instruction(ledger, r)["da"].data = ledger["da"].data

\* the account holds a byte and is undelegatable, and an Undelegate was
\* rejected, in a state where the handback of other bytes meets
\* InvalidAccountDataAfterCPI and the handback of the right bytes succeeds
C18_Witness ==
    /\ Delegated(ledger) /\ ~Pending(ledger) /\ ledger["da"].data # <<>>
    /\ last.applied = "Finalize" /\ last.rejected /\ hist.latch_finalized
    /\ \E a \in UndelegateInputs :
          /\ a.cpi = "bad_data"
          /\ process_undelegate(ledger, a).res = "InvalidAccountDataAfterCPI"
          /\ process_undelegate(ledger, a).st["da"].data # ledger["da"].data
          /\ process_undelegate(ledger, Honest(a)).res = "Ok"

\* C19: on a delegated account that holds bytes (the handback path), an
\* Undelegate returns Ok only when the handback charged the validator exactly
\* the rent of the re-created account; when it charged one lamport more or one
\* less the Undelegate fails, with InvalidValidatorBalanceAfterCPI whenever it
\* would have succeeded with the exact charge.
C19_ExactRentCharged ==
    (Delegated(ledger) /\ ledger["da"].data # <<>>) =>
        \A a \in UndelegateInputs :
            LET r == process_undelegate(ledger, a)
            IN  /\ r.res = "Ok" => a.cpi \notin {"overcharge", "undercharge"}
                /\ a.cpi \in {"overcharge", "undercharge"} =>
                      /\ r.res # "Ok"
                      /\ process_undelegate(ledger, Honest(a)).res = "Ok"
                            => r.res = "InvalidValidatorBalanceAfterCPI"

\* the account holds a byte and is undelegatable, and an Undelegate was
\* rejected, in a state where a handback charging a lamport too much and one
\* charging a lamport too little both meet InvalidValidatorBalanceAfterCPI
C19_Witness ==
    /\ Delegated(ledger) /\ ~Pending(ledger) /\ ledger["da"].data # <<>>
    /\ last.rejected /\ hist.latch_finalized
    /\ \A b \in {"overcharge", "undercharge"} :
          \E a \in UndelegateInputs :
              /\ a.cpi = b
              /\ process_undelegate(ledger, a).res = "InvalidValidatorBalanceAfterCPI"
              /\ process_undelegate(ledger, Honest(a)).res = "Ok"

\* the fee percentages close_pda_with_fees is tried with
FeePercentages == {0, 1, RENT_FEES_PERCENTAGE, 33, 100}

\* the cells Undelegate's cleanup closes
CleanupCells == {"dr", "dm"}

\* what closing a cell of `lamports` lamports at `fee_percentage` pays out
Payout(lamports, fee_percentage) ==
    LET F      == (lamports * fee_percentage) \div 100
        second == (F * fee_percentage) \div 100
    IN  [total |-> F, protocol |-> second, validator |-> F - second,
         rent_payer |-> lamports - F]

\* C20: closing the delegation record or the delegation metadata, holding L
\* lamports, at fee percentage p gives floor(floor(L*p/100)*p/100) to the
\* protocol fee vault, the rest of F = floor(L*p/100) to the validator fee
\* vault and L - F to the rent payer, leaves the cell with 0 lamports and no
\* data and every other cell as it was; a successful Undelegate has paid out
\* both cells in this way at RENT_FEES_PERCENTAGE.
C20_CascadingFee ==
    Delegated(ledger) =>
        /\ \A t \in CleanupCells, v \in {"V1", "V2"}, p \in FeePercentages :
              LET vault == validator_fees_vault_pda(v)
                  r     == close_pda_with_fees(ledger, t, "Payer", <<vault, "fees_vault">>, p)
                  pay   == Payout(ledger[t].lamports, p)
              IN  /\ r.res = "Ok"
                  /\ r.st["fees_vault"].lamports = ledger["fees_vault"].lamports + pay.protocol
                  /\ r.st[vault].lamports = ledger[vault].lamports + pay.validator
                  /\ r.st["Payer"].lamports = ledger["Payer"].lamports + pay.rent_payer
                  /\ pay.protocol + pay.validator + pay.rent_payer = ledger[t].lamports
                  /\ r.st[t].lamports = 0 /\ r.st[t].data = <<>>
                  /\ \A k \in Cells \ {t, vault, "fees_vault", "Payer"} : r.st[k] = ledger[k]
        /\ \A a \in UndelegateInputs :
              LET r     == process_undelegate(ledger, a)
                  vault == validator_fees_vault_pda(a.validator)
                  dr    == Payout(ledger["dr"].lamports, RENT_FEES_PERCENTAGE)
                  dm    == Payout(ledger["dm"].lamports, RENT_FEES_PERCENTAGE)
              IN  r.res = "Ok" =>
                      /\ r.st["dr"] = Uninitialized /\ r.st["dm"] = Uninitialized
                      /\ r.st["fees_vault"].lamports =
                             ledger["fees_vault"].lamports + dr.protocol + dm.protocol
                      /\ r.st[vault].lamports =
                             ledger[vault].lamports + dr.validator + dm.validator
                      /\ r.st["Payer"].lamports =
                             ledger["Payer"].lamports + dr.rent_payer + dm.rent_payer

\* an Undelegate has closed both cells, the protocol fee vault and a validator
\* fee vault hold fees that differ, and the rent payer, who paid the rent of
\* both cells, got back less than it paid
C20_Witness ==
    /\ last.applied = "Undelegate" /\ ~last.rejected
    /\ ledger["dr"] = Uninitialized /\ ledger["dm"] = Uninitialized
    /\ ledger["fees_vault"].lamports > InitLedger["fees_vault"].lamports
    /\ \E v \in {"V1", "V2"} :
          ledger[validator_fees_vault_pda(v)].lamports
              - InitLedger[validator_fees_vault_pda(v)].lamports
            > ledger["fees_vault"].lamports - InitLedger["fees_vault"].lamports
    /\ ledger["Payer"].lamports < PayerFunds
    /\ PayerFunds - ledger["Payer"].lamports
           > ledger["fees_vault"].lamports - InitLedger["fees_vault"].lamports

\* whether an Undelegate reaches the checks of the addresses it supplies
ReachesAddressChecks(L, a) ==
    /\ undelegate_account_checks(L, a) = ""
    /\ ~Pending(L)

\* C21: an Undelegate returns Ok only when the owner program it supplies is
\* the delegation record's owner and the rent reimbursement address it
\* supplies is the metadata's rent payer; the account is then owned by the
\* recorded owner and the recorded rent payer is the one credited.  Past the
\* account and pending-commit checks another owner program fails with
\* InvalidAccountOwner, and, on an undelegatable account with the right owner
\* program, another reimbursement address fails with
\* InvalidReimbursementAddressForDelegationRent.
C21_HandbackToRecorded ==
    Delegated(ledger) =>
        \A a \in UndelegateInputs :
            LET r          == process_undelegate(ledger, a)
                owner      == DelegationRecordOf(ledger).owner
                rent_payer == DelegationMetadataOf(ledger).rent_payer
            IN  /\ r.res = "Ok" =>
                      /\ a.owner_program = owner
                      /\ a.rent_reimbursement = rent_payer
                      /\ r.st["da"].owner = owner
                      /\ r.st[rent_payer].lamports > ledger[rent_payer].lamports
                      /\ \A k \in (Payers \cup {"V1"}) \ {rent_payer, a.validator} :
                            r.st[k] = ledger[k]
                /\ (ReachesAddressChecks(ledger, a) /\ a.owner_program # owner)
                      => r.res = "InvalidAccountOwner"
                /\ (/\ ReachesAddressChecks(ledger, a)
                    /\ a.owner_program = owner
                    /\ DelegationMetadataOf(ledger).is_undelegatable
                    /\ a.rent_reimbursement # rent_payer)
                      => r.res = "InvalidReimbursementAddressForDelegationRent"

\* an undelegatable account with nothing pending, where an Undelegate was
\* rejected, where one naming another owner program meets InvalidAccountOwner,
\* one naming another reimbursement address meets
\* InvalidReimbursementAddressForDelegationRent and one naming the recorded
\* addresses succeeds
C21_Witness ==
    /\ Delegated(ledger) /\ ~Pending(ledger) /\ last.rejected
    /\ DelegationMetadataOf(ledger).is_undelegatable
    /\ \E a, b, c \in UndelegateInputs :
          /\ a.owner_program # DelegationRecordOf(ledger).owner
          /\ process_undelegate(ledger, a).res = "InvalidAccountOwner"
          /\ b.owner_program = DelegationRecordOf(ledger).owner
          /\ b.rent_reimbursement # DelegationMetadataOf(ledger).rent_payer
          /\ process_undelegate(ledger, b).res
                 = "InvalidReimbursementAddressForDelegationRent"
          /\ process_undelegate(ledger, c).res = "Ok"

\* C22: on a delegated account that holds no bytes, an Undelegate that returns
\* Ok has only reassigned the account to the recorded owner program (lamports
\* and bytes as they were), created no handback buffer, left the validator's
\* balance alone and closed the delegation record and the metadata; the owner
\* program is not invoked: whatever its handback entry point would do, the
\* result is the same.
C22_FastPath ==
    (Delegated(ledger) /\ ledger["da"].data = <<>>) =>
        \A a \in UndelegateInputs :
            LET r == process_undelegate(ledger, a)
            IN  /\ \A b \in CpiBehaviours :
                      process_undelegate(ledger, [a EXCEPT !.cpi = b]) = r
                /\ r.res = "Ok" =>
                      /\ r.st["da"] = [ledger["da"] EXCEPT
                                           !.owner = DelegationRecordOf(ledger).owner]
                      /\ r.st["ub"] = ledger["ub"] /\ r.st["ub"] = Uninitialized
                      /\ r.st[a.validator] = ledger[a.validator]
                      /\ r.st["dr"] = Uninitialized /\ r.st["dm"] = Uninitialized

\* an Undelegate has succeeded on an account without bytes: the account is
\* back under the owner program, empty, and the record and metadata are closed
C22_Witness ==
    /\ last.applied = "Undelegate" /\ ~last.rejected
    /\ ledger["da"].owner = OwnerProg /\ ledger["da"].data = <<>>
    /\ ledger["da"].lamports > 0
    /\ ledger["dr"] = Uninitialized /\ ledger["dm"] = Uninitialized
    /\ ledger["ub"] = Uninitialized

\* C24: while the delegation record or the delegation metadata exists every
\* Delegate fails without writing anything, so the record (owner, authority,
\* lamports) and the metadata (nonce, undelegatable flag, rent payer) are as
\* they were; when the account is owned by the delegation program and both
\* signatures are present the failure is the delegation record's
\* uninitialized-cell check (DelegationRecordInvalidAccountOwner).
C24_NoSecondDelegate ==
    (ledger["dr"] # Uninitialized \/ ledger["dm"] # Uninitialized) =>
        \A a \in DelegateInputs :
            LET r == process_delegate(ledger, a)
            IN  /\ r.res # "Ok"
                /\ r.st = ledger
                /\ process_instruction(ledger, r)["dr"] = ledger["dr"]
                /\ process_instruction(ledger, r)["dm"] = ledger["dm"]
                /\ (ledger["da"].owner = DLP /\ a.payer_signer /\ a.delegated_signer)
                      => r.res = "DelegationRecordInvalidAccountOwner"

\* a delegated account whose metadata has moved on from its initial values
\* (a finalized commit, the undelegatable flag set), where an invocation was
\* rejected and a fully signed Delegate meets the record's check
C24_Witness ==
    /\ Delegated(ledger) /\ last.rejected
    /\ DelegationMetadataOf(ledger).last_update_nonce > 0
    /\ DelegationMetadataOf(ledger).is_undelegatable
    /\ \E a \in DelegateInputs :
          /\ a.payer_signer /\ a.delegated_signer
          /\ process_delegate(ledger, a).res = "DelegationRecordInvalidAccountOwner"

\* the bytes a CommitDiff payload reconstructs from the account bytes of L
Reconstructed(L, payload) ==
    apply_diff_copy(L["da"].data, try_new_from_borsh_vec(payload)).data

\* C26: a CommitDiff whose diff parses and applies to the account's bytes A
\* returns the same result and the same ledger as the CommitState, and the
\* CommitStateFromBuffer, carrying the reconstructed bytes with the same
\* validator, nonce, lamports and allow_undelegation, whether they succeed or
\* fail; when the diff is compute_diff(A, B) and the commit is accepted the
\* commit state cell holds exactly B.
C26_DiffCommitEquivalent ==
    \A a \in CommitDiffInputs(ledger) : Wellformed(ledger, a.data) =>
        LET r == process_commit_diff(ledger, a)
            b == [a EXCEPT !.data = Reconstructed(ledger, a.data)]
        IN  /\ r = process_commit_state(ledger, b)
            /\ r = process_commit_state_from_buffer(ledger, b)
            /\ \A B \in DataValues :
                  (a.data = borsh_vec(compute_diff(ledger["da"].data, B)) /\ r.res = "Ok")
                      => r.st["cs"].data = B

\* a CommitDiff was accepted whose diff shortened the account's bytes: the
\* commit state cell holds fewer bytes than the account
C26_Witness ==
    /\ last.applied = "CommitDiff" /\ ~last.rejected /\ Pending(ledger)
    /\ Len(ledger["cs"].data) < Len(ledger["da"].data)
    /\ \E a \in CommitDiffInputs(ledger) :
          /\ Wellformed(ledger, a.data)
          /\ Reconstructed(ledger, a.data) = ledger["cs"].data
          /\ a.data # ledger["cs"].data

\* the step of an accepted commit
AcceptedCommit == ~last'.rejected /\ last'.applied \in CommitOps /\ ledger' # ledger

\* C27: the step of an accepted commit leaves the delegated account (bytes,
\* lamports, owner), the delegation record cell with every field, the
\* metadata's last_update_nonce, seeds and rent payer, and every cell other
\* than the two commit cells, the metadata and the committing validator's
\* wallet as they were; and while the account stays delegated a step that
\* changes the account, the delegation record or last_update_nonce is an
\* accepted Finalize.
C27_CommitFrame ==
    [][/\ AcceptedCommit =>
              /\ ledger'["da"] = ledger["da"]
              /\ ledger'["dr"] = ledger["dr"]
              /\ ledger'["dm"] = [ledger["dm"] EXCEPT !.data[1].is_undelegatable =
                                      DelegationMetadataOf(ledger').is_undelegatable]
              /\ \A k \in Cells \ {"cs", "cr", "dm", hist'.committer} :
                    ledger'[k] = ledger[k]
              /\ ledger'["cs"] # ledger["cs"] /\ ledger'["cr"] # ledger["cr"]
       /\ (/\ Delegated(ledger) /\ Delegated(ledger')
           /\ \/ ledger'["da"] # ledger["da"]
              \/ ledger'["dr"] # ledger["dr"]
              \/ DelegationMetadataOf(ledger').last_update_nonce
                     # DelegationMetadataOf(ledger).last_update_nonce)
              => (last'.applied = "Finalize" /\ ~last'.rejected)]_vars

\* a commit was accepted that carries other bytes and other lamports than the
\* account and the record hold and sets the undelegatable flag: account,
\* record and nonce are still the ones from before it
C27_Witness ==
    /\ Pending(ledger) /\ ~last.rejected /\ last.applied \in CommitOps
    /\ ledger["cs"].data # ledger["da"].data
    /\ CommitRecordOf(ledger).lamports # DelegationRecordOf(ledger).lamports
    /\ DelegationRecordOf(ledger).lamports = ledger["da"].lamports
    /\ DelegationMetadataOf(ledger).is_undelegatable
    /\ CommitRecordOf(ledger).nonce = DelegationMetadataOf(ledger).last_update_nonce + 1
    /\ ledger[hist.committer].lamports < ValidatorFunds

\* C28: merge_diff_copy on the parsed compute_diff(A, B) fails with
\* MergeDiffError, leaving the destination as it was, when the destination's
\* length differs from A's; when destination, A and B have the same length it
\* succeeds and the destination holds B, whatever it held before.
C28_MergeEquivalence ==
    codec.phase = "merged" =>
        /\ Len(codec.destination) # Len(codec.original) =>
              /\ ~codec.applied.ok /\ codec.applied.err = "MergeDiffError"
              /\ codec.applied.data = codec.destination
        /\ (/\ Len(codec.destination) = Len(codec.original)
            /\ Len(codec.changed) = Len(codec.original)) =>
              (codec.applied.ok /\ codec.applied.data = codec.changed)

\* a merge into a destination of three bytes that differed from A and from B
\* in every byte, with B changing the middle byte of A only, gave B: the
\* unchanged bytes before and after the segment were copied from A
C28_Witness ==
    /\ codec.phase = "merged" /\ codec.applied.ok
    /\ Len(codec.original) = 3 /\ Len(codec.changed) = 3 /\ Len(codec.destination) = 3
    /\ codec.original[1] = codec.changed[1] /\ codec.original[2] # codec.changed[2]
    /\ codec.original[3] = codec.changed[3]
    /\ \A k \in 1..3 : codec.destination[k] # codec.changed[k]
    /\ codec.applied.data = codec.changed

\* C29: for all buffers A and B, compute_diff(A, B) is len(B) as u32, the
\* segment count k as u32, k offset pairs and the payload, 8 + 8k + payload
\* bytes in all.  The payload is the bytes of B at the positions where A and B
\* differ within their common prefix and at the positions past the end of A,
\* in order; a segment starts at each such position whose predecessor is not
\* one, and at len(A) when B is longer; the pair of a segment is the number of
\* payload bytes before it and its start in B.  compute_diff(A, A) is the 8
\* bytes len(A), 0; 100 zero bytes changed at [11,15) and [71,79) give 36
\* bytes with the pairs (0, 11) and (4, 71).
C29_WireFormat ==
    codec.phase = "computed" =>
        LET A == codec.original
            B == codec.changed
            d == codec.diff
            positions == {i \in 0..(Len(B) - 1) : i >= Len(A) \/ A[i + 1] # B[i + 1]}
            starts    == {i \in positions : i = 0 \/ i = Len(A) \/ (i - 1) \notin positions}
            k         == Cardinality(starts)
            Before(i) == Cardinality({x \in positions : x < i})
            Rank(s)   == Cardinality({t \in starts : t < s})
        IN  /\ Len(d) = 8 + 8 * k + Cardinality(positions)
            /\ Slice(d, 0, 4) = to_le_bytes(Len(B))
            /\ Slice(d, 4, 8) = to_le_bytes(k)
            /\ \A s \in starts :
                  /\ Slice(d, 8 + 8 * Rank(s), 12 + 8 * Rank(s)) = to_le_bytes(Before(s))
                  /\ Slice(d, 12 + 8 * Rank(s), 16 + 8 * Rank(s)) = to_le_bytes(s)
            /\ \A i \in positions : d[8 + 8 * k + Before(i) + 1] = B[i + 1]
            /\ A = B => d = to_le_bytes(Len(A)) \o to_le_bytes(0)
            /\ (A = Zeros(100) /\ B = ExampleChanged) =>
                  /\ Len(d) = 36
                  /\ d = to_le_bytes(100) \o to_le_bytes(2)
                         \o to_le_bytes(0) \o to_le_bytes(11)
                         \o to_le_bytes(4) \o to_le_bytes(71)
                         \o <<4, 3, 2, 1>> \o <<8, 7, 6, 5, 4, 3, 2, 1>>

\* the diff of the example was computed: two segments, the second one's
\* offset in the payload being the length of the first
C29_Witness ==
    /\ codec.phase = "computed"
    /\ codec.original = Zeros(100) /\ codec.changed = ExampleChanged
    /\ Len(codec.diff) = 36
    /\ read_u32(codec.diff, 4) = 2
    /\ read_u32(codec.diff, 16) = 4 /\ read_u32(codec.diff, 20) = 71

\* C30: apply_diff_in_place fails with InvalidInstructionData and leaves the
\* target buffer as it was whenever the target's length differs from the
\* diff's changed_len, for a longer and for a shorter changed buffer alike;
\* applied to the original of equal length it succeeds and the buffer becomes
\* the changed buffer.
C30_InPlaceNeedsEqualLength ==
    codec.phase = "applied_in_place" =>
        LET ds == try_new(codec.diff, TRUE)
        IN  /\ ds.ok /\ ds.changed_len = Len(codec.changed)
            /\ (Len(codec.original) # Len(codec.changed)) =>
                  /\ ~codec.applied.ok
                  /\ codec.applied.err = "InvalidInstructionData"
                  /\ codec.applied.data = codec.original
            /\ (Len(codec.original) = Len(codec.changed)) =>
                  /\ codec.applied.ok
                  /\ codec.applied.data = codec.changed
            /\ \A target \in Buffers :
                  (Len(target) # ds.changed_len) =>
                      LET r == apply_diff_in_place(target, ds)
                      IN  ~r.ok /\ r.err = "InvalidInstructionData" /\ r.data = target

\* a diff to a shorter buffer was refused in place
C30_Witness ==
    /\ codec.phase = "applied_in_place"
    /\ Len(codec.changed) < Len(codec.original)
    /\ Len(codec.changed) > 0
    /\ ~codec.applied.ok
    /\ codec.applied.data = codec.original

\* seed lists of no, one, four and five components
SeedLists ==
    {<<>>, TEST_PDA_SEED, <<"other">>, <<"a", "b", "c", "d">>, <<"a", "b", "c", "d", "e">>}

\* C25: for an owner program other than the system program, the seed
\* validation of Delegate passes for an on-curve account whatever the list;
\* for a derived account it rejects a list of more than 4 components with
\* TooManySeeds and accepts a list of up to 4 components exactly when the
\* address derived from it under the owner program is the account's address,
\* rejecting it with InvalidSeeds otherwise; so on the account handed over, a
\* fully signed Delegate with the account's seeds succeeds and one with the
\* empty list fails with InvalidSeeds.
C25_Original ==
    /\ \A key \in {"da", "pda_no_seeds", "pda_four_seeds", "Payer"}, seeds \in SeedLists :
          LET e == delegate_seeds_check(key, OwnerProg, seeds)
          IN  IF is_on_curve_fast(key) THEN e = ""
              ELSE IF Len(seeds) > 4 THEN e = "TooManySeeds"
              ELSE IF find_program_address(seeds, OwnerProg) = key THEN e = ""
              ELSE e = "InvalidSeeds"
    /\ (ledger["da"].owner = DLP /\ ledger["dr"] = Uninitialized
            /\ ledger["dm"] = Uninitialized) =>
          \A a \in DelegateInputs :
              (a.payer_signer /\ a.delegated_signer /\ a.owner_program = OwnerProg) =>
                  process_delegate(ledger, a).res
                      = IF a.seeds = TEST_PDA_SEED THEN "Ok" ELSE "InvalidSeeds"

\* C23: every Delegate that returns Ok, on an account never delegated before
\* or on one undelegated and handed over again, leaves a DelegationRecord whose
\* lamports are the account's balance at the call and whose owner is the
\* supplied owner program, in a cell holding the record's rent, and a
\* DelegationMetadata with the supplied seeds, last_update_nonce 0,
\* is_undelegatable false and the payer as rent_payer; the account's balance
\* is as it was.
C23_DelegateCreatesRecords ==
    \A a \in DelegateInputs :
        LET r == process_delegate(ledger, a)
        IN  r.res = "Ok" =>
                /\ r.st["dr"].owner = DLP /\ r.st["dm"].owner = DLP
                /\ DelegationRecordOf(r.st).lamports = ledger["da"].lamports
                /\ DelegationRecordOf(r.st).owner = a.owner_program
                /\ r.st["dr"].lamports
                       = minimum_balance(size_with_discriminator("DelegationRecord"))
                /\ DelegationMetadataOf(r.st).seeds = a.seeds
                /\ DelegationMetadataOf(r.st).last_update_nonce = 0
                /\ DelegationMetadataOf(r.st).is_undelegatable = FALSE
                /\ DelegationMetadataOf(r.st).rent_payer = a.payer
                /\ r.st["da"].lamports = ledger["da"].lamports

(***************************************************************************)
(* Delegating again: the account has been through a first delegation and   *)
(* the owner program hands it over once more                               *)
(***************************************************************************)
\* what the protocol fees vault gains from one Undelegate
UndelegationProtocolFee ==
    Payout(minimum_balance(size_with_discriminator("DelegationRecord")),
           RENT_FEES_PERCENTAGE).protocol
    + Payout(minimum_balance(size_with_discriminator("DelegationMetadata")),
             RENT_FEES_PERCENTAGE).protocol

\* the Undelegates the ledger has seen, read off the protocol fees vault
Undelegations(L) ==
    (L["fees_vault"].lamports - InitLedger["fees_vault"].lamports)
        \div UndelegationProtocolFee

\* the owner program's delegate instruction up to its call of Delegate: the
\* account's bytes go to the delegate buffer, the account is zeroed and
\* assigned to the delegation program
handover(L) ==
    [L EXCEPT !["db"] = [owner |-> OwnerProg, lamports |-> 0, data |-> L["da"].data],
              !["da"] = [owner |-> DLP, lamports |-> L["da"].lamports,
                         data |-> Zeros(Len(L["da"].data))]]

\* the ledger after a first delegation by V1: Delegate, the commit c,
\* Finalize and Undelegate, each applied as the runtime applies it
FirstDelegation(c) ==
    LET v  == [validator |-> "V1", signer |-> TRUE]
        d  == [payer |-> "Payer", payer_signer |-> TRUE, delegated_signer |-> TRUE,
               owner_program |-> OwnerProg, validator |-> "V1", seeds |-> TEST_PDA_SEED]
        u  == [validator |-> "V1", signer |-> TRUE, owner_program |-> OwnerProg,
               rent_reimbursement |-> "Payer", cpi |-> "ok"]
        L1 == process_instruction(InitLedger, process_delegate(InitLedger, d))
        L2 == process_instruction(L1, process_commit_state(L1, c))
        L3 == process_instruction(L2, process_finalize(L2, v))
    IN  process_instruction(L3, process_undelegate(L3, u))

\* the commits of the first delegation: one that raises the lamports and
\* keeps a byte, one that withdraws them and empties the account
FirstCommits ==
    {c \in CommitInputs :
        /\ c.validator = "V1" /\ c.signer /\ c.nonce = 1 /\ c.allow_undelegation
        /\ \/ c.lamports = 2 * AccountFunds /\ c.data = <<0>>
           \/ c.lamports = 0 /\ c.data = <<>>}

\* the account is handed over for the first time, or was undelegated once and
\* is handed over again
InitRedelegate ==
    /\ ledger \in {InitLedger}
                    \cup {handover(L) : L \in {FirstDelegation(c) : c \in FirstCommits}}
    /\ ledger["da"].owner = DLP /\ Undelegations(ledger) \in {0, 1}
    /\ Cardinality({FirstDelegation(c) : c \in FirstCommits}) = 2
    /\ last = [applied |-> "None", rejected |-> FALSE]
    /\ hist = NoHistory
    /\ codec = CodecIdle

SpecRedelegate == InitRedelegate /\ [][Next]_vars

\* the account delegated to V1 with V1 itself paying the rent of the records
ValidatorPaid ==
    process_instruction(InitLedger,
        process_delegate(InitLedger,
            [payer |-> "V1", payer_signer |-> TRUE, delegated_signer |-> TRUE,
             owner_program |-> OwnerProg, validator |-> "V1", seeds |-> TEST_PDA_SEED]))

InitValidatorPays ==
    /\ ledger \in {InitLedger, ValidatorPaid}
    /\ Delegated(ValidatorPaid) /\ DelegationMetadataOf(ValidatorPaid).rent_payer = "V1"
    /\ last = [applied |-> "None", rejected |-> FALSE]
    /\ hist = NoHistory
    /\ codec = CodecIdle

SpecValidatorPays == InitValidatorPays /\ [][Next]_vars

\* the account, undelegated once with a balance other than the one it was
\* first delegated with, has just been delegated again: the record holds the
\* new balance and the metadata starts afresh
C23_Witness ==
    /\ last.applied = "Delegate" /\ ~last.rejected
    /\ Undelegations(ledger) = 1 /\ Delegated(ledger)
    /\ ledger["da"].lamports # AccountFunds
    /\ DelegationRecordOf(ledger).lamports = ledger["da"].lamports
    /\ DelegationMetadataOf(ledger).last_update_nonce = 0
    /\ ~DelegationMetadataOf(ledger).is_undelegatable

(***************************************************************************)
(* Properties of the parser and the reconstructions on arbitrary diffs     *)
(***************************************************************************)
\* C31 as stated: for every buffer A and every diff that parses and whose
\* segments all validate, apply_diff_copy returns a buffer of length
\* changed_len in which every position covered by a segment holds that
\* segment's byte and every other position i holds A[i] if i < len(A) and 0
\* otherwise.
C31_Original ==
    codec.phase = "copied" =>
        LET ds      == try_new(codec.diff, codec.aligned)
            Item(i) == diff_segment_at(ds, i)
            data    == codec.applied.data
        IN  (\A i \in 0..(ds.segments_count - 1) : Item(i).kind = "Some") =>
                /\ codec.applied.ok
                /\ Len(data) = ds.changed_len
                /\ \A p \in 0..(ds.changed_len - 1) :
                      LET covering == {i \in 0..(ds.segments_count - 1) :
                                          Item(i).start <= p /\ p < Item(i).end}
                      IN  IF covering # {}
                          THEN \A i \in covering :
                                  data[p + 1] = Item(i).segment[p - Item(i).start + 1]
                          ELSE data[p + 1] = IF p < Len(codec.original)
                                             THEN codec.original[p + 1] ELSE 0

\* C31: for every buffer A and every diff that parses and whose segments all
\* validate, apply_diff_copy returns a buffer of length changed_len in which
\* every position covered by a segment holds the byte of the last segment
\* that covers it and every other position i holds A[i] if i < len(A) and 0
\* otherwise.
C31_ApplyCopyResult ==
    codec.phase = "copied" =>
        LET ds      == try_new(codec.diff, codec.aligned)
            Item(i) == diff_segment_at(ds, i)
            data    == codec.applied.data
        IN  (\A i \in 0..(ds.segments_count - 1) : Item(i).kind = "Some") =>
                /\ codec.applied.ok
                /\ Len(data) = ds.changed_len
                /\ \A p \in 0..(ds.changed_len - 1) :
                      LET covering == {i \in 0..(ds.segments_count - 1) :
                                          Item(i).start <= p /\ p < Item(i).end}
                          latest   == CHOOSE i \in covering : \A j \in covering : j <= i
                      IN  IF covering # {}
                          THEN data[p + 1] = Item(latest).segment[p - Item(latest).start + 1]
                          ELSE data[p + 1] = IF p < Len(codec.original)
                                             THEN codec.original[p + 1] ELSE 0

\* a diff of two valid segments that both cover position 0 with different
\* bytes was applied to a shorter original: position 0 holds the second
\* segment's byte, and an uncovered position past the original's end holds 0
C31_Witness ==
    /\ codec.phase = "copied" /\ codec.applied.ok
    /\ LET ds == try_new(codec.diff, codec.aligned)
       IN  /\ ds.segments_count = 2
           /\ diff_segment_at(ds, 0).kind = "Some" /\ diff_segment_at(ds, 1).kind = "Some"
           /\ diff_segment_at(ds, 0).start = 0 /\ diff_segment_at(ds, 1).start = 0
           /\ diff_segment_at(ds, 0).segment[1] # diff_segment_at(ds, 1).segment[1]
           /\ codec.applied.data[1] = diff_segment_at(ds, 1).segment[1]
           /\ ds.changed_len = 3 /\ Len(codec.original) = 1
           /\ codec.original[1] # 0
           /\ codec.applied.data[3] = 0

\* C32 as stated: DiffSet parsing rejects with InvalidDiff every buffer shorter
\* than the 8-byte header minimum, every buffer whose declared segment_count
\* implies a header longer than the buffer, and every buffer whose implied
\* header length equals the buffer length while segment_count is not 0; it
\* accepts a header-only buffer only with segment_count 0.
C32_Original ==
    codec.phase = "parsed" =>
        LET d == codec.diff
        IN  /\ Len(d) < 8 =>
                  (~codec.applied.ok /\ codec.applied.err = "InvalidDiff")
            /\ (Len(d) >= 8 /\ 8 + 8 * read_u32(d, 4) > Len(d)) =>
                  (~codec.applied.ok /\ codec.applied.err = "InvalidDiff")
            /\ (Len(d) >= 8 /\ 8 + 8 * read_u32(d, 4) = Len(d) /\ read_u32(d, 4) # 0) =>
                  (~codec.applied.ok /\ codec.applied.err = "InvalidDiff")
            /\ (Len(d) >= 8 /\ 8 + 8 * read_u32(d, 4) = Len(d) /\ codec.applied.ok) =>
                  read_u32(d, 4) = 0

\* C32: DiffSet parsing rejects with InvalidDiff every buffer shorter than the
\* 8-byte header minimum; a buffer of at least 8 bytes that does not start on
\* a 4-byte boundary is rejected with InvalidDiffAlignment; a 4-byte-aligned
\* buffer is rejected with InvalidDiff when its declared segment_count implies
\* a header longer than the buffer and when the implied header length equals
\* the buffer length while segment_count is not 0; a header-only buffer is
\* accepted only with segment_count 0, and an aligned one with segment_count
\* 0 is accepted.
C32_ParserRejects ==
    codec.phase = "parsed" =>
        LET d == codec.diff
        IN  /\ Len(d) < 8 =>
                  (~codec.applied.ok /\ codec.applied.err = "InvalidDiff")
            /\ (Len(d) >= 8 /\ ~codec.aligned) =>
                  (~codec.applied.ok /\ codec.applied.err = "InvalidDiffAlignment")
            /\ (Len(d) >= 8 /\ codec.aligned /\ 8 + 8 * read_u32(d, 4) > Len(d)) =>
                  (~codec.applied.ok /\ codec.applied.err = "InvalidDiff")
            /\ (/\ Len(d) >= 8 /\ codec.aligned
                /\ 8 + 8 * read_u32(d, 4) = Len(d) /\ read_u32(d, 4) # 0) =>
                  (~codec.applied.ok /\ codec.applied.err = "InvalidDiff")
            /\ (Len(d) >= 8 /\ 8 + 8 * read_u32(d, 4) = Len(d) /\ codec.applied.ok) =>
                  read_u32(d, 4) = 0
            /\ (Len(d) = 8 /\ codec.aligned /\ read_u32(d, 4) = 0) => codec.applied.ok

\* an aligned buffer of 16 bytes declaring one segment, all header and no
\* payload, was rejected with InvalidDiff
C32_Witness ==
    /\ codec.phase = "parsed" /\ codec.aligned
    /\ Len(codec.diff) = 16 /\ read_u32(codec.diff, 4) = 1
    /\ ~codec.applied.ok /\ codec.applied.err = "InvalidDiff"

\* C33: per-segment access and iteration over a parsed diff return
\* InvalidDiff, never a segment, for any segment whose end lies beyond the
\* concatenated-bytes length, whose offset_in_diff is not strictly smaller than
\* the next segment's offset_in_diff (or than the payload end for the last
\* segment), whose offset_in_data is at or beyond changed_len, or whose target
\* range ends beyond changed_len; every segment that is returned is non-empty
\* and its target range lies within [0, changed_len).
C33_Original ==
    (codec.phase = "segment" /\ codec.index < read_u32(codec.diff, 4)) =>
        LET d          == codec.diff
            n          == read_u32(d, 4)
            i          == codec.index
            changed    == read_u32(d, 0)
            payload    == Len(d) - 8 - 8 * n
            begin      == read_u32(d, 8 + 8 * i)
            in_data    == read_u32(d, 12 + 8 * i)
            end        == IF i + 1 < n THEN read_u32(d, 8 + 8 * (i + 1)) ELSE payload
            beyond     == u32_lt(payload, end)
            not_rising == ~u32_lt(begin, end)
            outside    == ~u32_lt(in_data, changed)
            too_long   == ~beyond /\ ~not_rising /\ ~outside
                          /\ u32_lt(changed - in_data, end - begin)
        IN  /\ (beyond \/ not_rising \/ outside \/ too_long) => codec.item.kind = "Err"
            /\ codec.item.kind = "Some" =>
                  /\ Len(codec.item.segment) > 0
                  /\ ~u32_lt(codec.item.start, 0)
                  /\ u32_lt(codec.item.start, codec.item.end)
                  /\ ~u32_lt(changed, codec.item.end)
                  /\ codec.item.end - codec.item.start = Len(codec.item.segment)

(***************************************************************************)
(* Properties of the delegation lifecycle, continued                       *)
(***************************************************************************)
\* C34: in every reachable state with a pending commit, Finalize invoked by
\* the validator that made the commit, signing and with its fee vault present,
\* succeeds: the settlement of lamports does not fail for lack of funds in the
\* delegated account or in the commit state account, and after it no commit
\* is pending, so a later commit or Undelegate is not blocked by this one.
C34_FinalizeSucceeds ==
    Pending(ledger) =>
        LET a == [validator |-> CommitRecordOf(ledger).identity, signer |-> TRUE]
            r == process_finalize(ledger, a)
        IN  /\ require_initialized_pda(ledger, validator_fees_vault_pda(a.validator)) = ""
            /\ r.res = "Ok"
            /\ ~Pending(r.st)
            /\ DelegationMetadataOf(r.st).last_update_nonce = CommitRecordOf(ledger).nonce
            /\ r.st["da"].lamports = CommitRecordOf(ledger).lamports
                                     + (ledger["da"].lamports
                                        - DelegationRecordOf(ledger).lamports)

\* a commit of more lamports than recorded is pending, the surplus exceeding
\* the rent of the commit state account, and the committer's Finalize moves
\* the surplus to the delegated account
C34_Witness ==
    /\ Pending(ledger)
    /\ CommitRecordOf(ledger).lamports - DelegationRecordOf(ledger).lamports
           > minimum_balance(Len(ledger["cs"].data))
    /\ LET a == [validator |-> CommitRecordOf(ledger).identity, signer |-> TRUE]
       IN  /\ process_finalize(ledger, a).res = "Ok"
           /\ process_finalize(ledger, a).st["da"].lamports > ledger["da"].lamports

\* C35: in every reachable state in which a delegation record exists, the
\* delegated account holds at least delegation_record.lamports (only this
\* program debits the account), so no commit is rejected with
\* InvalidDelegatedState.
C35_RecordedLamportsHeld ==
    /\ (require_initialized_pda(ledger, "dr") = "") =>
          ledger["da"].lamports >= DelegationRecordOf(ledger).lamports
    /\ \A a \in CommitInputs :
          /\ process_commit_state(ledger, a).res # "InvalidDelegatedState"
          /\ process_commit_state_from_buffer(ledger, a).res # "InvalidDelegatedState"
    /\ \A a \in CommitDiffInputs(ledger) :
          process_commit_diff(ledger, a).res # "InvalidDelegatedState"

\* a commit of fewer lamports was finalized, the delegated account paid the
\* difference to the fee vault, and the record follows the lower balance
C35_Witness ==
    /\ require_initialized_pda(ledger, "dr") = ""
    /\ hist.finalized >= 1
    /\ ledger["da"].lamports < AccountFunds
    /\ DelegationRecordOf(ledger).lamports = ledger["da"].lamports
    /\ \E a \in CommitInputs : process_commit_state(ledger, a).res = "Ok"

\* C36: in every reachable state in which a CommitRecord exists for the
\* delegated account, its nonce is metadata.last_update_nonce + 1 and its
\* account field is the delegated account; an accepted commit leaves a
\* CommitState cell as long as the bytes committed; consequently a Finalize
\* of the pending commit raises last_update_nonce by exactly 1.
C36_PendingRecordConsistent ==
    /\ (require_initialized_pda(ledger, "cr") = "") =>
          /\ CommitRecordOf(ledger).nonce = DelegationMetadataOf(ledger).last_update_nonce + 1
          /\ CommitRecordOf(ledger).account = "da"
          /\ require_initialized_pda(ledger, "cs") = ""
          /\ LET r == process_finalize(ledger, [validator |-> CommitRecordOf(ledger).identity,
                                                signer |-> TRUE])
             IN  r.res = "Ok" =>
                     DelegationMetadataOf(r.st).last_update_nonce
                         = DelegationMetadataOf(ledger).last_update_nonce + 1
    /\ \A a \in CommitInputs :
          LET r == process_commit_state(ledger, a)
          IN  r.res = "Ok" =>
                  /\ Len(r.st["cs"].data) = Len(a.data)
                  /\ CommitRecordOf(r.st).nonce
                         = DelegationMetadataOf(r.st).last_update_nonce + 1
    /\ \A a \in CommitDiffInputs(ledger) :
          LET r == process_commit_diff(ledger, a)
          IN  r.res = "Ok" =>
                  /\ Len(r.st["cs"].data) = Len(Reconstructed(ledger, a.data))
                  /\ CommitRecordOf(r.st).nonce
                         = DelegationMetadataOf(r.st).last_update_nonce + 1

\* a second commit is pending after the first was finalized: its record
\* carries nonce 2 while the metadata holds 1, and the commit state cell is
\* one byte long while the account is empty
C36_Witness ==
    /\ require_initialized_pda(ledger, "cr") = ""
    /\ hist.finalized = 1
    /\ CommitRecordOf(ledger).nonce = 2
    /\ DelegationMetadataOf(ledger).last_update_nonce = 1
    /\ Len(ledger["cs"].data) = 1 /\ ledger["da"].data = <<>>

\* C37 as stated: a successful Undelegate through the handback path leaves
\* the delegated account with the lamports it had when Undelegate began and
\* the validator's balance unchanged overall; if the account's balance was
\* below the rent-exempt minimum for its size, Undelegate fails with Overflow.
C37_Original ==
    (Delegated(ledger) /\ ledger["da"].data # <<>>) =>
        \A a \in UndelegateInputs :
            LET r == process_undelegate(ledger, a)
            IN  /\ r.res = "Ok" =>
                      /\ r.st["da"].lamports = ledger["da"].lamports
                      /\ r.st[a.validator].lamports = ledger[a.validator].lamports
                /\ (/\ ledger["da"].lamports < minimum_balance(Len(ledger["da"].data))
                    /\ ReachesAddressChecks(ledger, a)
                    /\ a.owner_program = DelegationRecordOf(ledger).owner
                    /\ DelegationMetadataOf(ledger).is_undelegatable
                    /\ a.rent_reimbursement = DelegationMetadataOf(ledger).rent_payer
                    /\ a.cpi = "ok") => r.res = "Overflow"

\* C37: a successful Undelegate through the handback path leaves the
\* delegated account with the lamports it had when Undelegate began, and the
\* handback leaves the validator's balance unchanged: overall the validator's
\* balance changes only by the rent that the cleanup reimburses it when it is
\* itself the recorded rent payer.  If the account's balance was below the
\* rent-exempt minimum for its size, Undelegate fails with Overflow.
C37_HandbackNeutral ==
    (Delegated(ledger) /\ ledger["da"].data # <<>>) =>
        \A a \in UndelegateInputs :
            LET r == process_undelegate(ledger, a)
                reimbursed ==
                    IF DelegationMetadataOf(ledger).rent_payer = a.validator
                    THEN Payout(ledger["dr"].lamports, RENT_FEES_PERCENTAGE).rent_payer
                         + Payout(ledger["dm"].lamports, RENT_FEES_PERCENTAGE).rent_payer
                    ELSE 0
            IN  /\ r.res = "Ok" =>
                      /\ r.st["da"].lamports = ledger["da"].lamports
                      /\ r.st[a.validator].lamports
                             = ledger[a.validator].lamports + reimbursed
                /\ (/\ ledger["da"].lamports < minimum_balance(Len(ledger["da"].data))
                    /\ ReachesAddressChecks(ledger, a)
                    /\ a.owner_program = DelegationRecordOf(ledger).owner
                    /\ DelegationMetadataOf(ledger).is_undelegatable
                    /\ a.rent_reimbursement = DelegationMetadataOf(ledger).rent_payer
                    /\ a.cpi = "ok") => r.res = "Overflow"

\* an Undelegate was rejected on an undelegatable account that holds a byte
\* and no lamports: the well-behaved handback meets Overflow there
C37_Witness ==
    /\ Delegated(ledger) /\ ~Pending(ledger)
    /\ ledger["da"].data # <<>> /\ ledger["da"].lamports = 0
    /\ DelegationMetadataOf(ledger).is_undelegatable
    /\ last.rejected
    /\ \E a \in UndelegateInputs :
          a.cpi = "ok" /\ process_undelegate(ledger, a).res = "Overflow"


\* C38: after a successful Undelegate the delegation record and the
\* delegation metadata no longer exist and the account is no longer owned by
\* the delegation program; from then on, until a new Delegate succeeds (also
\* once the owner program has handed the account over again), every
\* CommitState, CommitStateFromBuffer, CommitDiff, Finalize and Undelegate on
\* the account fails and leaves the ledger as it was.
C38_UndelegateEndsDelegation ==
    /\ (last.applied = "Undelegate" /\ ~last.rejected) =>
          /\ ledger["dr"] = Uninitialized /\ ledger["dm"] = Uninitialized
          /\ ledger["da"].owner # DLP
          /\ Undelegations(ledger) >= 1
    /\ (Undelegations(ledger) >= 1 /\ ~Delegated(ledger)) =>
          /\ ledger["dr"] = Uninitialized /\ ledger["dm"] = Uninitialized
          /\ \A a \in CommitInputs :
                /\ process_commit_state(ledger, a).res # "Ok"
                /\ process_commit_state_from_buffer(ledger, a).res # "Ok"
                /\ process_instruction(ledger, process_commit_state(ledger, a)) = ledger
          /\ \A a \in CommitDiffInputs(ledger) :
                /\ process_commit_diff(ledger, a).res # "Ok"
                /\ process_instruction(ledger, process_commit_diff(ledger, a)) = ledger
          /\ \A a \in FinalizeInputs :
                /\ process_finalize(ledger, a).res # "Ok"
                /\ process_instruction(ledger, process_finalize(ledger, a)) = ledger
          /\ \A a \in UndelegateInputs :
                /\ process_undelegate(ledger, a).res # "Ok"
                /\ process_instruction(ledger, process_undelegate(ledger, a)) = ledger

\* the account was delegated, committed to, finalized and undelegated, it is
\* back with its owner program, an invocation has been turned down since
\* that Undelegate, and a fully signed commit and Undelegate of V1 fail
C38_Witness ==
    /\ Undelegations(ledger) = 1 /\ ~Delegated(ledger)
    /\ ledger["da"].owner = OwnerProg
    /\ ledger["dr"] = Uninitialized /\ ledger["dm"] = Uninitialized
    /\ last.applied = "Undelegate" /\ last.rejected
    /\ \E a \in CommitInputs :
          /\ a.validator = "V1" /\ a.signer
          /\ process_commit_state(ledger, a).res = "InvalidAccountOwner"
    /\ \E a \in UndelegateInputs :
          /\ a.validator = "V1" /\ a.signer /\ a.owner_program = OwnerProg
          /\ process_undelegate(ledger, a).res # "Ok"


(***************************************************************************)
(* Properties of compute_diff's output and of the two reconstructions      *)
(***************************************************************************)
\* C39: for all buffers A and B the output of compute_diff(A, B) is a
\* well-formed diff: it parses, every segment access succeeds, changed_len
\* equals len(B), every segment is non-empty, and the segments' target ranges
\* are pairwise disjoint and strictly increasing in offset_in_data.
C39_ComputedDiffWellFormed ==
    codec.phase = "computed" =>
        LET ds     == try_new(codec.diff, TRUE)
            seg(i) == diff_segment_at(ds, i)
        IN  /\ codec.diff = compute_diff(codec.original, codec.changed)
            /\ ds.ok
            /\ ds.changed_len = Len(codec.changed)
            /\ Len(ds.offset_pairs) = ds.segments_count
            /\ diff_segment_at(ds, ds.segments_count).kind = "None"
            /\ \A i \in 0..(ds.segments_count - 1) :
                  /\ seg(i).kind = "Some"
                  /\ Len(seg(i).segment) >= 1
                  /\ seg(i).end = seg(i).start + Len(seg(i).segment)
                  /\ seg(i).start >= 0 /\ seg(i).end <= Len(codec.changed)
            /\ \A i, j \in 0..(ds.segments_count - 1) :
                  i < j => /\ seg(i).start < seg(j).start
                           /\ seg(i).end <= seg(j).start

\* a diff of two segments was computed for a changed buffer longer than the
\* original: a run inside the common prefix and the bytes past the
\* original's end, with unchanged bytes between the two
C39_Witness ==
    /\ codec.phase = "computed"
    /\ Len(codec.changed) > Len(codec.original)
    /\ LET ds == try_new(codec.diff, TRUE)
       IN  /\ ds.ok /\ ds.segments_count = 2
           /\ diff_segment_at(ds, 0).kind = "Some"
           /\ diff_segment_at(ds, 1).kind = "Some"
           /\ diff_segment_at(ds, 0).end < diff_segment_at(ds, 1).start
           /\ diff_segment_at(ds, 1).start = Len(codec.original)


\* C40: for every buffer A, every destination of length len(A) and every diff
\* that parses, whose segments all validate and whose changed_len equals
\* len(A) (not only diffs produced by compute_diff), merge_diff_copy fills the
\* destination with exactly the buffer that apply_diff_copy(A, diff) returns.
C40_Original ==
    codec.phase = "merged" =>
        LET ds == try_new(codec.diff, codec.aligned)
        IN  (/\ ds.ok
             /\ \A i \in 0..(ds.segments_count - 1) : diff_segment_at(ds, i).kind = "Some"
             /\ ds.changed_len = Len(codec.original)
             /\ Len(codec.destination) = Len(codec.original))
            => /\ codec.applied.ok
               /\ apply_diff_copy(codec.original, ds).ok
               /\ codec.applied.data = apply_diff_copy(codec.original, ds).data

=============================================================================
